---- MODULE Spec2Model ----
(***************************************************************************)
(* uDapp: the assistant's event-stream client (lib/uassistantClient.ts),   *)
(* and of the widget (components/UranoWidget.tsx) the plan execution       *)
(* engine, the conversation state, the JSON-RPC client, the cancellation   *)
(* of streams and of the receipt wait, and the calldata helpers.           *)
(*                                                                         *)
(* Text is modelled as a sequence of one-character strings, a byte stream  *)
(* as a sequence of bytes (an ASCII byte is written as its character, the  *)
(* two bytes of U+00E9 are written "xC3" and "xA9").                       *)
(***************************************************************************)
EXTENDS Integers, Sequences, FiniteSets, TLC

VARIABLES
    \* ---- streamChat (lib/uassistantClient.ts) ----
    stream,        \* the bytes the transport will deliver, in order
    pos,           \* number of bytes of stream already returned by reader.read()
    pending,       \* bytes the TextDecoder holds back (incomplete UTF-8 sequence)
    buf,           \* let buf
    currentEvent,  \* let currentEvent: <<>> is null, <<name>> a string
    events,        \* the arguments of the onEvent calls made so far, in order
    received,      \* history: all text the decoder has produced so far
    seps,          \* history: for each onEvent call, the offset in received of
                   \*          the separator that ended the block it came from
    cuts,          \* history: the kinds of places at which the stream was cut into
                   \*          chunks: "utf8" (inside a character), "separator"
                   \*          (between the two line ends of a separator), "other"
    spc,           \* position of streamChat: "idle" (not called) | "fetching" |
                   \* "reading" (the reader is locked) | "released" (the lock is
                   \* released) | "failed" (it threw before it took a reader)
    \* ---- sendPlanToWallet (components/UranoWidget.tsx) ----
    plan,          \* the AssistantPlan of the card that was clicked
    account,       \* useActiveAccount(): <<>> is undefined, <<address>> connected
    walletChain,   \* useActiveWalletChain() as the clicked handler sees it:
                   \* <<>> is undefined, <<id>> a chain
    env,           \* import.meta.env: VITE_URANO_TOKEN, VITE_USDC_TOKEN, VITE_RPC_URL
    ppc,           \* position of the execution (the await it is suspended at)
    approving,     \* the approval being sent or awaited: "STAKE" | "BUY_USHARE" | "none"
    stakeAmountWei,\* const stakeAmountWei (a bigint; <<>> before it is set)
    txHash,        \* args.txHash of the running waitForReceipt
    tries,         \* let i of waitForReceipt
    delayMs,       \* let delayMs of waitForReceipt
    isSendingTx,   \* useState isSendingTx
    messages,      \* the messages appended by pushMessage, in order
    log,           \* history: the calls made to the wallet and to the RPC
                   \*          endpoints and the results they gave, in order
    err,           \* history: the message of the error thrown by sendPlanToWallet
    \* ---- the conversation (components/UranoWidget.tsx) ----
    \* messages is the useState of the widget: in a conversation each message
    \* is [id, role, text, plan] (plan: <<>> is undefined, <<p>> attached)
    isStreaming,   \* useState isStreaming
    planReceived,  \* let planReceived of the running startStreaming
    assistantId,   \* the assistantId startStreaming was called with (<<>>: none yet)
    payload,       \* the payload the last onSend gave to startStreaming
    lastPlan,      \* history: the plan of the latest plan event of this turn
    lastType,      \* history: the type of the latest event of this turn
    turns,         \* history: the number of turns started by onSend
    nEvents,       \* history: the number of events delivered to onEvent so far
    \* ---- rpcCallWithFallback (components/UranoWidget.tsx) ----
    rpcResps,      \* the answer each endpoint gives when it is asked
    rpcI,          \* position of the for loop: 0 not called, i asking rpcs[i],
                   \* Len(rpcs) + 1 the call is over
    lastErr,       \* let lastErr: <<>> is null, <<message>> an Error
    asked,         \* history: the endpoints a request was sent to, in order
    rpcOut,        \* history: what the call gave: <<>> while it runs
    \* ---- cancellation and the send button (components/UranoWidget.tsx) ----
    signal,        \* the signal argument of the running waitForReceipt or
                   \* rpcCallWithFallback: <<>> is undefined,
                   \* <<FALSE>> a signal that is not aborted, <<TRUE>> an aborted one
    abortRef,      \* abortRef.current: <<>> is null, <<n>> the controller of the
                   \* n-th startStreaming
    aborted,       \* the controllers whose abort() has been called
    inflight,      \* the startStreaming executions whose await streamChat(...)
                   \* has not settled, each named by its controller
    outcome,       \* history: how the latest streamChat settled:
                   \* "none" | "returned" | "failed" | "aborted"
    clicks,        \* history: the number of clicks on a "Send to wallet" button
    \* ---- encodeErc20Approve and decodeFirstUint256Arg ----
    argSpender,    \* the spender handed to encodeErc20Approve
    argAmount,     \* the amount handed to encodeErc20Approve (a bigint)
    calldata,      \* what encodeErc20Approve returned (<<>>: not called yet)
    decoded,       \* what decodeFirstUint256Arg gave for calldata (<<>>: not called yet)
    \* ---- the start and the end of streamChat (lib/uassistantClient.ts) ----
    response,      \* const res of streamChat: <<>> while fetch is pending, <<r>> the response
    thrown         \* history: the message of the error streamChat threw (<<>>: none)

streamVars == <<stream, pos, pending, buf, currentEvent, events, received, seps, cuts, spc>>

planVars == <<plan, account, walletChain, env, ppc, approving, stakeAmountWei, txHash,
              tries, delayMs, isSendingTx, messages, log, err>>

chatVars == <<isStreaming, planReceived, assistantId, payload, lastPlan, lastType,
              turns, nEvents>>

rpcVars == <<rpcResps, rpcI, lastErr, asked, rpcOut>>

ctlVars == <<signal, abortRef, aborted, inflight, outcome, clicks>>

codecVars == <<argSpender, argAmount, calldata, decoded>>

fetchVars == <<response, thrown>>

vars == <<streamVars, planVars, chatVars, rpcVars, ctlVars, codecVars, fetchVars>>

(***************************************************************************)
(* Bounds                                                                  *)
(***************************************************************************)
MaxSegs == 2       \* a stream is the concatenation of 1..MaxSegs segments
MaxChunk == 3      \* a read returns 1..MaxChunk bytes, or all the bytes that are left

(***************************************************************************)
(* JavaScript string operations, on sequences of characters                *)
(***************************************************************************)
NL == "\n"

\* The white space of String.prototype.trim and of the regexp class \s,
\* restricted to the characters that occur in the model
IsWs(c) == c \in {" ", NL, "\t", "\r"}

Min(a, b) == IF a < b THEN a ELSE b

\* s.slice(i) with a 0-based i >= 0
SliceFrom(s, i) == SubSeq(s, i + 1, Len(s))

\* s.slice(i, j) with 0-based 0 <= i <= j
Slice(s, i, j) == SubSeq(s, i + 1, Min(j, Len(s)))

\* s.startsWith(p)
StartsWith(s, p) == Len(s) >= Len(p) /\ SubSeq(s, 1, Len(p)) = p

\* p occurs in s at the 0-based offset i
OccursAt(s, p, i) == i + Len(p) <= Len(s) /\ \A k \in 1..Len(p) : s[i + k] = p[k]

\* s.indexOf(p): the 0-based offset of the first occurrence, or -1
IndexOf(s, p) ==
    LET occ == {i \in 0..Len(s) : OccursAt(s, p, i)}
    IN  IF occ = {} THEN -1 ELSE CHOOSE i \in occ : \A j \in occ : i <= j

\* s.includes(p)
Includes(s, p) == IndexOf(s, p) # -1

\* the offset reached from i by skipping white space (a greedy \s*)
RECURSIVE SkipWs(_, _)
SkipWs(s, i) == IF i < Len(s) /\ IsWs(s[i + 1]) THEN SkipWs(s, i + 1) ELSE Min(i, Len(s))

\* the length left when the white space at the end of the first n characters
\* of s is dropped
RECURSIVE DropWsBack(_, _)
DropWsBack(s, n) == IF n > 0 /\ IsWs(s[n]) THEN DropWsBack(s, n - 1) ELSE n

\* s.trimStart()
TrimStart(s) == SubSeq(s, SkipWs(s, 0) + 1, Len(s))

\* s.trimEnd()
TrimEnd(s) == SubSeq(s, 1, DropWsBack(s, Len(s)))

\* s.trim()
Trim(s) == TrimStart(TrimEnd(s))

\* s.split("\n")
RECURSIVE SplitLines(_)
SplitLines(s) ==
    LET i == IndexOf(s, <<NL>>)
    IN  IF i = -1 THEN <<s>>
        ELSE <<SubSeq(s, 1, i)>> \o SplitLines(SliceFrom(s, i + 1))

\* lines.join("\n")
RECURSIVE JoinLines(_)
JoinLines(lines) ==
    IF Len(lines) = 0 THEN <<>>
    ELSE IF Len(lines) = 1 THEN lines[1]
    ELSE lines[1] \o <<NL>> \o JoinLines(Tail(lines))

\* the offset of the end of the line that contains offset i (a "\n" or the end)
LineEnd(s, i) ==
    LET ends == {k \in i..(Len(s) - 1) : s[k + 1] = NL}
    IN  IF ends = {} THEN Len(s) ELSE CHOOSE k \in ends : \A j \in ends : k <= j

\* offset i is the start of a line (where ^ matches under the m flag)
AtLineStart(s, i) == i = 0 \/ (i <= Len(s) /\ s[i] = NL)


(***************************************************************************)
(* TextDecoder("utf-8").decode(value, { stream: true })                    *)
(***************************************************************************)
LeadByte == "xC3"       \* first byte of the two-byte sequence of U+00E9
ContByte == "xA9"       \* its continuation byte
EAcute   == "U+00E9"    \* the character the two bytes decode to
Replacement == "U+FFFD" \* what an ill-formed sequence decodes to

\* f[lo] \o ... \o f[hi]
RECURSIVE Concat(_, _, _)
Concat(f, lo, hi) ==
    IF lo > hi THEN <<>>
    ELSE IF lo = hi THEN f[lo]
    ELSE Concat(f, lo, (lo + hi) \div 2) \o Concat(f, (lo + hi) \div 2 + 1, hi)

\* Decodes bytes bs after the held-back bytes p; an incomplete sequence at
\* the end of the chunk is held back for the next call (stream: true).
\* A lead byte is always held back, so a sequence is open before byte i
\* exactly when the byte before it is a lead byte.
DecodeBytes(p, bs) ==
    LET open(i) == IF i = 1 THEN p # <<>> ELSE bs[i - 1] = LeadByte
        out(i)  == IF open(i)
                   THEN IF bs[i] = ContByte THEN <<EAcute>>
                        ELSE IF bs[i] = LeadByte THEN <<Replacement>>
                        ELSE <<Replacement, bs[i]>>
                   ELSE IF bs[i] = LeadByte THEN <<>>
                        ELSE IF bs[i] = ContByte THEN <<Replacement>>
                        ELSE <<bs[i]>>
    IN  [text |-> Concat([i \in 1..Len(bs) |-> out(i)], 1, Len(bs)),
         pending |-> IF bs = <<>> THEN p
                     ELSE IF bs[Len(bs)] = LeadByte THEN <<LeadByte>> ELSE <<>>]

\* A decoder without the stream option: an incomplete sequence at the end of
\* a chunk is decoded to U+FFFD at once instead of being held back.
DecodeNoStream(p, bs) ==
    LET r == DecodeBytes(p, bs)
    IN  [text |-> r.text \o (IF r.pending # <<>> THEN <<Replacement>> ELSE <<>>),
         pending |-> <<>>]

Decode(p, bs) == DecodeBytes(p, bs)

(***************************************************************************)
(* JSON.parse, for documents made of strings (without escapes), objects    *)
(* and the literals null, true and false; every other text is a syntax     *)
(* error. A value is a record tagged by t.                                 *)
(***************************************************************************)
Undef == [t |-> "undef"]
JNull == [t |-> "null"]
JBool(b) == [t |-> "bool", b |-> b]
JStr(s) == [t |-> "str", s |-> s]
JObj(f) == [t |-> "obj", f |-> f]

Quote == "\""
JFail == [ok |-> FALSE]
JOk(v, n) == [ok |-> TRUE, val |-> v, next |-> n]

\* a string literal starting at offset i
ParseString(s, i) ==
    IF i >= Len(s) \/ s[i + 1] # Quote THEN JFail
    ELSE IF ~\E k \in (i + 1)..(Len(s) - 1) : s[k + 1] = Quote THEN JFail
    ELSE LET k == CHOOSE k \in (i + 1)..(Len(s) - 1) :
                      s[k + 1] = Quote /\ \A j \in (i + 1)..(k - 1) : s[j + 1] # Quote
             body == Slice(s, i + 1, k)
         IN  IF \E j \in 1..Len(body) : body[j] \in {NL, "\t", "\r", "\\"} THEN JFail
             ELSE JOk(JStr(body), k + 1)

RECURSIVE ParseValue(_, _), ParseMembers(_, _, _, _)
ParseValue(s, i) ==
    IF i >= Len(s) THEN JFail
    ELSE IF s[i + 1] = Quote THEN ParseString(s, i)
    ELSE IF s[i + 1] = "{" THEN ParseMembers(s, SkipWs(s, i + 1), <<>>, TRUE)
    ELSE IF OccursAt(s, <<"n", "u", "l", "l">>, i) THEN JOk(JNull, i + 4)
    ELSE IF OccursAt(s, <<"t", "r", "u", "e">>, i) THEN JOk(JBool(TRUE), i + 4)
    ELSE IF OccursAt(s, <<"f", "a", "l", "s", "e">>, i) THEN JOk(JBool(FALSE), i + 5)
    ELSE JFail

\* the members of an object from offset i on; f holds the members read so far
ParseMembers(s, i, f, first) ==
    IF i >= Len(s) THEN JFail
    ELSE IF first /\ s[i + 1] = "}" THEN JOk(JObj(f), i + 1)
    ELSE LET key == ParseString(s, i) IN
         IF ~key.ok THEN JFail
         ELSE LET c == SkipWs(s, key.next) IN
              IF c >= Len(s) \/ s[c + 1] # ":" THEN JFail
              ELSE LET v == ParseValue(s, SkipWs(s, c + 1)) IN
                   IF ~v.ok THEN JFail
                   ELSE LET k == SkipWs(s, v.next)
                            g == [x \in (DOMAIN f) \cup {key.val.s} |->
                                      IF x = key.val.s THEN v.val ELSE f[x]]
                        IN  IF k >= Len(s) THEN JFail
                            ELSE IF s[k + 1] = "}" THEN JOk(JObj(g), k + 1)
                            ELSE IF s[k + 1] = "," THEN ParseMembers(s, SkipWs(s, k + 1), g, FALSE)
                            ELSE JFail

\* JSON.parse(s): ok is FALSE when it throws
JSONParse(s) ==
    LET v == ParseValue(s, SkipWs(s, 0))
    IN  IF v.ok /\ SkipWs(s, v.next) = Len(s) THEN [ok |-> TRUE, val |-> v.val] ELSE [ok |-> FALSE]

\* v.key for a parsed value v that is not null
GetProp(v, key) == IF v.t = "obj" /\ key \in DOMAIN v.f THEN v.f[key] ELSE Undef

\* reading a property of v throws a TypeError
PropThrows(v) == v.t \in {"null", "undef"}

\* a ?? b
Coalesce(a, b) == IF a.t \in {"null", "undef"} THEN b ELSE a

(***************************************************************************)
(* streamChat: flushBlock and the read loop                                *)
(***************************************************************************)
EVENT_PREFIX == <<"e", "v", "e", "n", "t", ":">>
DATA_PREFIX  == <<"d", "a", "t", "a", ":">>

NameReady == <<"r", "e", "a", "d", "y">>
NamePlan  == <<"p", "l", "a", "n">>
NameDelta == <<"d", "e", "l", "t", "a">>
NameDone  == <<"d", "o", "n", "e">>
NameError == <<"e", "r", "r", "o", "r">>

KeyId      == <<"i", "d">>
KeyDelta   == <<"d", "e", "l", "t", "a">>
KeyError   == <<"e", "r", "r", "o", "r">>
KeyMessage == <<"m", "e", "s", "s", "a", "g", "e">>

\* /^\s*:\s*/m.test(block): some line start is followed by white space
\* (which may run over line ends) and then a colon
CommentTest(block) ==
    \E i \in 0..Len(block) :
        /\ AtLineStart(block, i)
        /\ LET k == SkipWs(block, i) IN k < Len(block) /\ block[k + 1] = ":"

\* the value of ev after the loop over the lines: <<>> is null
LastEventLine(lines) ==
    LET idx == {i \in 1..Len(lines) : StartsWith(lines[i], EVENT_PREFIX)}
    IN  IF idx = {} THEN <<>>
        ELSE LET last == CHOOSE i \in idx : \A j \in idx : j <= i
             IN  <<Trim(SliceFrom(lines[last], 6))>>

\* dataLines after the loop over the lines
RECURSIVE DataLines(_)
DataLines(lines) ==
    IF lines = <<>> THEN <<>>
    ELSE (IF ~StartsWith(Head(lines), EVENT_PREFIX) /\ StartsWith(Head(lines), DATA_PREFIX)
          THEN <<TrimStart(SliceFrom(Head(lines), 5))>> ELSE <<>>) \o DataLines(Tail(lines))

\* (ev ?? currentEvent ?? "").trim()
EventNameOf(ev, cur) == Trim(IF ev # <<>> THEN ev[1] ELSE IF cur # <<>> THEN cur[1] ELSE <<>>)

\* lines 136-186: the onEvent calls for a block with the event name
\* eventName and the data dataRaw, where parsed is JSON.parse(dataRaw)
Dispatch(eventName, dataRaw, parsed) ==
    IF eventName = <<>> THEN <<>>
    ELSE IF eventName = NameReady THEN
        IF dataRaw = <<>> THEN <<[type |-> "ready", id |-> Undef]>>
        ELSE IF parsed.ok /\ ~PropThrows(parsed.val)
             THEN <<[type |-> "ready", id |-> GetProp(parsed.val, KeyId)]>>
             ELSE <<[type |-> "ready", id |-> Undef]>>
    ELSE IF eventName = NamePlan THEN
        IF parsed.ok THEN <<[type |-> "plan", plan |-> parsed.val]>>
        ELSE <<[type |-> "error", error |-> JStr(<<"BAD_PLAN_EVENT">>),
                message |-> JStr(<<"Could not parse plan payload.">>)]>>
    ELSE IF eventName = NameDelta THEN
        IF parsed.ok /\ ~PropThrows(parsed.val)
        THEN <<[type |-> "delta", delta |-> Coalesce(GetProp(parsed.val, KeyDelta), JStr(<<>>))]>>
        ELSE <<[type |-> "delta", delta |-> JStr(dataRaw)]>>
    ELSE IF eventName = NameDone THEN <<[type |-> "done"]>>
    ELSE IF eventName = NameError THEN
        IF parsed.ok /\ ~PropThrows(parsed.val)
        THEN <<[type |-> "error",
                error |-> Coalesce(GetProp(parsed.val, KeyError), JStr(<<"ERROR">>)),
                message |-> GetProp(parsed.val, KeyMessage)]>>
        ELSE <<[type |-> "error", error |-> JStr(<<"ERROR">>), message |-> JStr(dataRaw)]>>
    ELSE <<>>

\* lines 132-186, for the event name and the data of the block
FlushData(eventName, dataRaw) == Dispatch(eventName, dataRaw, JSONParse(dataRaw))

\* lines 123-186, for the lines of the block
FlushLines(lines, cur) ==
    FlushData(EventNameOf(LastEventLine(lines), cur), Trim(JoinLines(DataLines(lines))))

\* flushBlock(block) with the closure variable currentEvent = cur:
\* the sequence of the onEvent calls it makes (none or one)
flushBlock(block, cur) ==
    IF CommentTest(block) THEN <<>> ELSE FlushLines(SplitLines(block), cur)

\* block.match(/^event:\s*(.+)$/m)?.[1]?.trim(): <<>> when there is no match.
\* The first line start followed by "event:"; \s* is greedy and may run over
\* line ends, and gives characters back until (.+) has a character to start at.
EventMatch(block) ==
    LET starts(i) == {k \in (i + 6)..SkipWs(block, i + 6) : k < Len(block) /\ block[k + 1] # NL}
        ok(i)     == AtLineStart(block, i) /\ OccursAt(block, EVENT_PREFIX, i) /\ starts(i) # {}
    IN  IF ~\E i \in 0..Len(block) : ok(i) THEN <<>>
        ELSE LET i == CHOOSE i \in 0..Len(block) : ok(i) /\ \A j \in 0..(i - 1) : ~ok(j)
                 k == CHOOSE k \in starts(i) : \A j \in starts(i) : j <= k
             IN  <<Trim(Slice(block, k, LineEnd(block, k)))>>

\* m?.[1]?.trim() ?? currentEvent
OrCurrent(m, cur) == IF m # <<>> THEN m ELSE cur

\* lines 201-204: currentEvent after the block
EventAfter(block, cur) ==
    IF Includes(block, EVENT_PREFIX) THEN OrCurrent(EventMatch(block), cur) ELSE cur

\* line 206
FlushIfText(block, cur) == IF Len(Trim(block)) > 0 THEN flushBlock(block, cur) ELSE <<>>

\* the calls out of a block whose separator is at offset sep of the text
\* received, before what the rest of the loop gives
Emitted(out, sep, rest) ==
    [buf |-> rest.buf, currentEvent |-> rest.currentEvent,
     events |-> out \o rest.events,
     seps |-> [j \in 1..Len(out) |-> sep] \o rest.seps]

\* The inner while loop: takes the complete blocks out of b, one after the
\* other. base is the offset of b in the text received so far.
RECURSIVE ExtractBlocks(_, _, _), ExtractFrom(_, _, _, _), ExtractNext(_, _, _, _, _)
ExtractBlocks(b, cur, base) == ExtractFrom(b, cur, base, IndexOf(b, <<NL, NL>>))

\* one turn of the loop, idx being buf.indexOf("\n\n")
ExtractFrom(b, cur, base, idx) ==
    IF idx = -1 THEN [buf |-> b, currentEvent |-> cur, events |-> <<>>, seps |-> <<>>]
    ELSE ExtractNext(b, base, idx, TrimEnd(Slice(b, 0, idx)),
                     EventAfter(TrimEnd(Slice(b, 0, idx)), cur))

\* The loop ends at a block that gives a done event
ExtractNextUntilDone(b, base, idx, block, cur2) ==
    IF FlushIfText(block, cur2) # <<>> /\ FlushIfText(block, cur2)[1].type = "done"
    THEN Emitted(FlushIfText(block, cur2), base + idx,
                 [buf |-> SliceFrom(b, idx + 2), currentEvent |-> cur2,
                  events |-> <<>>, seps |-> <<>>])
    ELSE Emitted(FlushIfText(block, cur2), base + idx,
                 ExtractBlocks(SliceFrom(b, idx + 2), cur2, base + idx + 2))

\* the turn after currentEvent is set to cur2: the block is flushed and the
\* loop goes on with the rest of buf
ExtractNext(b, base, idx, block, cur2) ==
    Emitted(FlushIfText(block, cur2), base + idx,
            ExtractBlocks(SliceFrom(b, idx + 2), cur2, base + idx + 2))

\* A loop that looks for one block per chunk only ("if" for "while")
ExtractOneBlock(b, cur, base) ==
    LET idx == IndexOf(b, <<NL, NL>>) IN
    IF idx = -1 THEN [buf |-> b, currentEvent |-> cur, events |-> <<>>, seps |-> <<>>]
    ELSE Emitted(FlushIfText(TrimEnd(Slice(b, 0, idx)), EventAfter(TrimEnd(Slice(b, 0, idx)), cur)),
                 base + idx,
                 [buf |-> SliceFrom(b, idx + 2),
                  currentEvent |-> EventAfter(TrimEnd(Slice(b, 0, idx)), cur),
                  events |-> <<>>, seps |-> <<>>])

DrainBuffer(b, cur, base) == ExtractBlocks(b, cur, base)

(***************************************************************************)
(* The streams of the model                                                *)
(***************************************************************************)
SegDone    == <<"e","v","e","n","t",":","d","o","n","e",NL,NL>>
SegDelta   == <<"e","v","e","n","t",":","d","e","l","t","a",NL,
                "d","a","t","a",":","{",Quote,"d","e","l","t","a",Quote,":",
                Quote,LeadByte,ContByte,Quote,"}",NL,NL>>
SegData    == <<"d","a","t","a",":","h","i",NL,NL>>
SegComment == <<":","k",NL,NL>>
SegNewline == <<NL>>
SegReady   == <<"e","v","e","n","t",":","r","e","a","d","y">>
SegLead    == <<LeadByte>>

Segments == {SegDone, SegDelta, SegData, SegComment, SegNewline, SegReady, SegLead}

RECURSIVE StreamsOf(_)
StreamsOf(n) ==
    IF n = 0 THEN {<<>>}
    ELSE LET shorter == StreamsOf(n - 1)
         IN  shorter \cup {s \o g : s \in shorter, g \in Segments}

Streams == StreamsOf(MaxSegs) \ {<<>>}

(***************************************************************************)
(* Streams made of whole blocks                                            *)
(***************************************************************************)
MaxBlocks == 2     \* a stream of blocks is made of 1..MaxBlocks blocks

NamePing == <<"p", "i", "n", "g">>

\* payloads: a JSON object, text that is not JSON, and the JSON null
PayObject == <<"{", Quote, "d", "e", "l", "t", "a", Quote, ":", Quote, "h", Quote, "}">>
PayText   == <<"x">>
PayNull   == <<"n", "u", "l", "l">>

EventLine(name) == EVENT_PREFIX \o <<" ">> \o name
DataLine(p)     == DATA_PREFIX \o <<" ">> \o p
CommentLine     == <<":", "k">>

\* the lines of the blocks a stream is made of
BlockLines ==
    {<<EventLine(n)>> : n \in {NameDone, NameReady}}
    \cup {<<EventLine(n), DataLine(PayObject)>> : n \in {NameDelta, NamePlan, NameError}}
    \cup {<<EventLine(n), DataLine(PayText)>> :
              n \in {NameReady, NamePlan, NameDelta, NameError, NamePing, <<>>}}
    \cup {<<EventLine(NameDelta), DataLine(PayNull)>>,
          <<DataLine(PayObject)>>, <<DataLine(PayText)>>,
          <<EVENT_PREFIX>>,
          <<EventLine(NameDelta), EventLine(NameDone)>>,
          <<CommentLine>>,
          <<CommentLine, EventLine(NameDone)>>,
          <<EventLine(NameDelta), DataLine(PayText), CommentLine>>,
          <<CommentLine, DataLine(PayText)>>}

\* a block as it is sent: its lines and the blank line that ends it
Block(lines) == JoinLines(lines) \o <<NL, NL>>

RECURSIVE BlockStreamsOf(_)
BlockStreamsOf(n) ==
    IF n = 0 THEN {<<>>}
    ELSE LET shorter == BlockStreamsOf(n - 1)
         IN  shorter \cup {s \o Block(ls) : s \in shorter, ls \in BlockLines}

BlockStreams == BlockStreamsOf(MaxBlocks) \ {<<>>}

(***************************************************************************)
(* Actions of streamChat                                                   *)
(***************************************************************************)
\* fetch is not given the signal: the stream goes on after abort()
signalNeverAborted(id, ab) == FALSE

\* signal.aborted of the signal streamChat hands to fetch (line 103), where
\* id names the controller of the startStreaming that called it and ab is
\* the set of controllers aborted so far: once it holds, the pending fetch
\* or read rejects and no further chunk is delivered
signalAborted(id, ab) == id \in ab

\* the kind of the cut that a chunk ending after byte p makes
CutKind(p) ==
    IF p >= Len(stream) THEN {}
    ELSE IF stream[p] = LeadByte /\ stream[p + 1] = ContByte THEN {"utf8"}
    ELSE IF stream[p] = NL /\ stream[p + 1] = NL THEN {"separator"}
    ELSE {"other"}

\* reader.read() returns the next n bytes; they are decoded, appended to buf
\* and every complete block is taken out of buf
ReadChunk ==
    /\ spc = "reading"
    /\ ~signalAborted(turns, aborted)
    /\ \E n \in (1..Min(MaxChunk, Len(stream) - pos)) \cup ({Len(stream) - pos} \ {0}) :
       \E d \in {Decode(pending, SubSeq(stream, pos + 1, pos + n))} :
       \E r \in {DrainBuffer(buf \o d.text, currentEvent, Len(received) - Len(buf))} :
            /\ pos' = pos + n
            /\ pending' = d.pending
            /\ received' = received \o d.text
            /\ buf' = r.buf
            /\ currentEvent' = r.currentEvent
            /\ events' = events \o r.events
            /\ seps' = seps \o r.seps
            /\ cuts' = cuts \cup CutKind(pos + n)
    /\ UNCHANGED <<stream, spc>>
    /\ UNCHANGED <<planVars, chatVars, rpcVars, ctlVars, codecVars, fetchVars>>

\* reader.read() returns done: the loop ends and the lock is released
ReadDone ==
    /\ spc = "reading"
    /\ ~signalAborted(turns, aborted)
    /\ pos = Len(stream)
    /\ spc' = "released"
    /\ UNCHANGED <<stream, pos, pending, buf, currentEvent, events, received, seps, cuts>>
    /\ UNCHANGED <<planVars, chatVars, rpcVars, ctlVars, codecVars, fetchVars>>

(***************************************************************************)
(* Hexadecimal text and bigint values. A bigint is held as its hexadecimal *)
(* digits, lower case, without leading zeros (what toString(16) returns).  *)
(***************************************************************************)
HexDigits == <<"0", "1", "2", "3", "4", "5", "6", "7", "8", "9", "a", "b", "c", "d", "e", "f">>

Lower(c) ==
    CASE c = "A" -> "a" [] c = "B" -> "b" [] c = "C" -> "c"
      [] c = "D" -> "d" [] c = "E" -> "e" [] c = "F" -> "f" [] OTHER -> c

\* [a-fA-F0-9]
HexChars == {"0", "1", "2", "3", "4", "5", "6", "7", "8", "9", "a", "b", "c", "d", "e", "f",
             "A", "B", "C", "D", "E", "F"}

IsHexChar(c) == c \in HexChars

HexVal(c) == (CHOOSE i \in 1..16 : HexDigits[i] = Lower(c)) - 1

IsHex(h) == \A i \in 1..Len(h) : IsHexChar(h[i])

RECURSIVE SkipZeros(_, _)
SkipZeros(h, i) == IF i < Len(h) /\ h[i + 1] = "0" THEN SkipZeros(h, i + 1) ELSE i

\* BigInt("0x" + h) for hexadecimal digits h (at least one)
BigIntOfHex(h) ==
    LET z == SkipZeros(h, 0)
    IN  IF z = Len(h) THEN <<"0">> ELSE [i \in 1..(Len(h) - z) |-> Lower(h[z + i])]

\* a < b for bigints
BigLess(a, b) ==
    \/ Len(a) < Len(b)
    \/ /\ Len(a) = Len(b)
       /\ \E i \in 1..Len(a) :
            /\ HexVal(a[i]) < HexVal(b[i])
            /\ \A j \in 1..(i - 1) : a[j] = b[j]

\* s.padStart(n, c)
PadStart(s, n, c) == IF Len(s) >= n THEN s ELSE [i \in 1..(n - Len(s)) |-> c] \o s

ZeroX == <<"0", "x">>

\* const MAX_UINT256 = 2n ** 256n - 1n
MAX_UINT256 == [i \in 1..64 |-> "f"]

(***************************************************************************)
(* Calldata helpers of UranoWidget.tsx                                     *)
(***************************************************************************)
\* a thrown error / a returned value
Thrown(msg) == [ok |-> FALSE, error |-> msg]
Returned(v) == [ok |-> TRUE, val |-> v]

isHexAddress(v) == Len(v) = 42 /\ StartsWith(v, ZeroX) /\ IsHex(SliceFrom(v, 2))

\* The second argument is read
decodeSecondUint256Arg(data) ==
    IF Len(data) < 10 + 64 THEN Thrown("Invalid calldata (too short)")
    ELSE LET arg1 == Slice(data, 10 + 64, 10 + 128)
         IN  IF IsHex(arg1) THEN Returned(BigIntOfHex(arg1))
             ELSE Thrown("SyntaxError: Cannot convert to a BigInt")

decodeFirstUint256Arg(data) ==
    IF Len(data) < 10 + 64 THEN Thrown("Invalid calldata (too short)")
    ELSE LET arg0 == Slice(data, 10, 10 + 64)
         IN  IF IsHex(arg0) THEN Returned(BigIntOfHex(arg0))
             ELSE Thrown("SyntaxError: Cannot convert to a BigInt")

SelApprove   == <<"0", "x", "0", "9", "5", "e", "a", "7", "b", "3">>
SelBalanceOf == <<"0", "x", "7", "0", "a", "0", "8", "2", "3", "1">>
SelAllowance == <<"0", "x", "d", "d", "6", "2", "e", "d", "3", "e">>

encodeErc20Approve(spender, amount) ==
    SelApprove \o PadStart(SliceFrom(spender, 2), 64, "0") \o PadStart(amount, 64, "0")

encodeBalanceOf(owner) == SelBalanceOf \o PadStart(SliceFrom(owner, 2), 64, "0")

encodeAllowance(owner, spender) ==
    SelAllowance \o PadStart(SliceFrom(owner, 2), 64, "0") \o PadStart(SliceFrom(spender, 2), 64, "0")

\* result: <<>> when it is not a string, <<text>> when it is
parseUint256Hex(result) ==
    IF result = <<>> \/ ~StartsWith(result[1], ZeroX) THEN Thrown("Bad RPC result (expected 0x...)")
    ELSE IF result[1] = ZeroX THEN Returned(<<"0">>)
    ELSE IF IsHex(SliceFrom(result[1], 2)) THEN Returned(BigIntOfHex(SliceFrom(result[1], 2)))
    ELSE Thrown("SyntaxError: Cannot convert to a BigInt")

\* v: the record the wallet resolved sendTx with
isSendTxResult(v) ==
    /\ "transactionHash" \in DOMAIN v
    /\ StartsWith(v.transactionHash, ZeroX)

(***************************************************************************)
(* JSON-RPC with fallback                                                  *)
(***************************************************************************)
BASE_SEPOLIA == "https://sepolia.base.org"
PUBLICNODE   == "https://base-sepolia-rpc.publicnode.com"

\* pickRpcUrls(): envRpc is VITE_RPC_URL trimmed, "" when it is not set
pickRpcUrls(envRpc) ==
    LET list == (IF envRpc # "" THEN <<envRpc>> ELSE <<>>) \o <<BASE_SEPOLIA, PUBLICNODE>>
        keep == {i \in 1..Len(list) : \A j \in 1..(i - 1) : list[j] # list[i]}
        F[i \in 0..Len(list)] ==
            IF i = 0 THEN <<>> ELSE IF i \in keep THEN Append(F[i - 1], list[i]) ELSE F[i - 1]
    IN  F[Len(list)]

\* The answers an endpoint can give. ok: HTTP 2xx; json: <<>> when the body
\* is not JSON, else <<body>> with error (<<>> or <<message>>), hasResult
\* ("result" in json) and result.
RespHttpFail  == [ok |-> FALSE, status |-> 503, json |-> <<>>]
RespBadJson   == [ok |-> TRUE, status |-> 200, json |-> <<>>]
RespRpcError  == [ok |-> TRUE, status |-> 200,
                  json |-> <<[error |-> <<"execution reverted">>, hasResult |-> FALSE, result |-> <<>>]>>]
RespNoResult  == [ok |-> TRUE, status |-> 200,
                  json |-> <<[error |-> <<>>, hasResult |-> FALSE, result |-> <<>>]>>]
RespResult(v) == [ok |-> TRUE, status |-> 200,
                  json |-> <<[error |-> <<>>, hasResult |-> TRUE, result |-> v]>>]

\* A body without a result key is returned as a result
rpcRequestResultUnchecked(resp) ==
    IF ~resp.ok THEN Thrown("RPC HTTP error")
    ELSE IF resp.json = <<>> THEN Thrown("SyntaxError: Unexpected token in JSON")
    ELSE IF resp.json[1].error # <<>> THEN Thrown(resp.json[1].error[1])
    ELSE Returned(resp.json[1].result)

\* rpcRequest, given the answer of the endpoint
rpcRequest(resp) ==
    IF ~resp.ok THEN Thrown("RPC HTTP error")
    ELSE IF resp.json = <<>> THEN Thrown("SyntaxError: Unexpected token in JSON")
    ELSE IF resp.json[1].error # <<>> THEN Thrown(resp.json[1].error[1])
    ELSE IF ~resp.json[1].hasResult THEN Thrown("RPC missing result")
    ELSE Returned(resp.json[1].result)

\* rpcCallWithFallback over the endpoints rpcs, where resps[i] is the answer
\* rpcs[i] gives if it is asked. tried is the number of endpoints asked.
RECURSIVE FallbackFrom(_, _, _, _)
FallbackFrom(rpcs, resps, i, last) ==
    IF i > Len(rpcs)
    THEN [ok |-> FALSE, error |-> IF last = <<>> THEN "All RPCs failed" ELSE last[1],
          tried |-> Len(rpcs)]
    ELSE LET r == rpcRequest(resps[i])
         IN  IF r.ok THEN [ok |-> TRUE, rpcUrl |-> rpcs[i], result |-> r.val, tried |-> i]
             ELSE FallbackFrom(rpcs, resps, i + 1, <<r.error>>)

rpcCallWithFallback(rpcs, resps) == FallbackFrom(rpcs, resps, 1, <<>>)

\* waitForReceipt
maxTries == 60
InitialDelayMs == 1200
MaxDelayMs == 2000

\* the largest power of two below q, from p upward (p a power of two below q)
RECURSIVE PowerOfTwoBelow(_, _)
PowerOfTwoBelow(q, p) == IF 2 * p < q THEN PowerOfTwoBelow(q, 2 * p) ELSE p

\* Math.floor(d * 1.15) for an integer d >= 1, as IEEE 754 doubles compute it.
\* The double written 1.15 is 1.15 - 0.4 * 2^-52, so the exact product is
\* 115 * d / 100 less 0.4 * d * 2^-52. When 115 * d / 100 is not an integer
\* the rounding of the product does not change its floor. When it is an
\* integer q, the product lies just below q, where doubles are p * 2^-52
\* apart (p the largest power of two below q): it rounds to q when
\* 0.4 * d <= p / 2 (a tie goes to q, whose significand is even), and to
\* the double below q, whose floor is q - 1, otherwise.
FloorTimes115(d) ==
    IF (115 * d) % 100 # 0 THEN (115 * d) \div 100
    ELSE IF 4 * d > 5 * PowerOfTwoBelow((115 * d) \div 100, 1)
    THEN (115 * d) \div 100 - 1
    ELSE (115 * d) \div 100

\* The product is computed without rounding
NextDelayExact(d) == Min(MaxDelayMs, (d * 115) \div 100)

\* Math.min(2000, Math.floor(delayMs * 1.15))
NextDelay(d) == Min(MaxDelayMs, FloorTimes115(d))

\* sanitizeTxError(raw).headline and .detail joined as onClickSendToWallet does
UndecodableRevert == "Encoded error signature \"0x13be252b\" not found on ABI."

sanitizeTxError(raw) ==
    IF raw = UndecodableRevert
    THEN <<"Transaction reverted with a custom contract error (0x13be252b).",
           "\n\n", "This is a revert coming from the contract. [...] Lookup: 0x13be252b">>
    ELSE <<raw>>

(***************************************************************************)
(* The plans, wallets and environments of the model                        *)
(***************************************************************************)
Addr(c) == ZeroX \o [i \in 1..40 |-> c]
Word(h) == PadStart(h, 64, "0")

URANO   == Addr("1")     \* VITE_URANO_TOKEN
STAKING == Addr("2")     \* the staking contract
USDC    == Addr("3")     \* VITE_USDC_TOKEN
MARKET  == Addr("4")     \* the uShare market
OWNER   == Addr("A")     \* account.address

SelStake == <<"0", "x", "a", "6", "9", "4", "f", "c", "3", "a">>   \* stake(uint256)
SelBuy   == <<"0", "x", "d", "9", "6", "a", "0", "9", "4", "a">>   \* buy(uint256)

Hundred == <<"6", "4">>      \* 100
NinetyNine == <<"6", "3">>   \* 99

TxPreview(to, data) == [chainId |-> 84532, to |-> to, data |-> data, value |-> <<"0">>]

StakeTx        == TxPreview(STAKING, SelStake \o Word(Hundred))
BuyTx          == TxPreview(MARKET, SelBuy \o Word(<<"5">>))
ApproveUranoTx == TxPreview(URANO, encodeErc20Approve(STAKING, Hundred))
ApproveUsdcTx  == TxPreview(USDC, encodeErc20Approve(MARKET, <<"5">>))
ShortTx        == TxPreview(STAKING, SelStake)

\* plan.tx: <<>> is null or absent
LegacyTxs == {<<>>, <<StakeTx>>, <<BuyTx>>, <<ApproveUranoTx>>, <<ApproveUsdcTx>>, <<ShortTx>>}
\* plan.txs: <<>> is empty or absent
TxLists == {<<>>, <<ApproveUranoTx, StakeTx>>, <<ApproveUsdcTx, BuyTx>>}
ActionTypes == {"STAKE", "BUY_USHARE", "UNSTAKE"}

\* the transactions a planner puts in a plan of a given action type
TxsFor(actionType) ==
    CASE actionType = "STAKE"      -> {StakeTx, ApproveUranoTx, ShortTx}
      [] actionType = "BUY_USHARE" -> {BuyTx, ApproveUsdcTx}
      [] OTHER                     -> {StakeTx}

Plans == {p \in [actionType : ActionTypes, tx : LegacyTxs, txs : TxLists] :
            /\ p.tx # <<>> => p.tx[1] \in TxsFor(p.actionType)
            /\ \A i \in 1..Len(p.txs) : p.txs[i] \in TxsFor(p.actionType)}

Envs == {[VITE_URANO_TOKEN |-> URANO, VITE_USDC_TOKEN |-> USDC, VITE_RPC_URL |-> ""],
         [VITE_URANO_TOKEN |-> <<>>, VITE_USDC_TOKEN |-> SelBuy, VITE_RPC_URL |-> ""]}

\* what the wallet can resolve sendTx with
TxHash1 == <<"0", "x", "7", "1">>
SendResults == {[transactionHash |-> TxHash1], [hash |-> TxHash1]}
\* what the wallet can reject sendTx with
WalletErrors == {"User rejected the request.", UndecodableRevert}

Status1 == <<"0", "x", "1">>
Status0 == <<"0", "x", "0">>
\* receipt.status: <<>> when the field is absent
Receipt(status) == [status |-> status, transactionHash |-> TxHash1]

\* answers of an endpoint to eth_getTransactionReceipt
PollResponses == {RespHttpFail, RespResult(<<>>), RespResult(<<Receipt(<<Status1>>)>>),
                  RespResult(<<Receipt(<<Status0>>)>>), RespResult(<<Receipt(<<>>)>>)}

\* answers of an endpoint to eth_call
ReadResponses == {RespHttpFail, RespResult(<<ZeroX>>), RespResult(<<ZeroX \o Word(NinetyNine)>>),
                  RespResult(<<ZeroX \o Word(Hundred)>>)}

(***************************************************************************)
(* BigInt(plan.tx.value) for a decimal string                              *)
(***************************************************************************)
DecDigits == <<"0", "1", "2", "3", "4", "5", "6", "7", "8", "9">>
IsDecimal(s) == \A i \in 1..Len(s) : \E d \in 1..10 : DecDigits[d] = s[i]

RECURSIVE DecValue(_, _)
DecValue(s, n) ==
    IF n = 0 THEN 0
    ELSE 10 * DecValue(s, n - 1) + (CHOOSE d \in 1..10 : DecDigits[d] = s[n]) - 1

RECURSIVE HexOfNat(_)
HexOfNat(n) == IF n < 16 THEN <<HexDigits[n + 1]>> ELSE HexOfNat(n \div 16) \o <<HexDigits[(n % 16) + 1]>>

BigIntOfDecimal(s) ==
    IF IsDecimal(s) THEN Returned(HexOfNat(DecValue(s, Len(s))))
    ELSE Thrown("SyntaxError: Cannot convert to a BigInt")

(***************************************************************************)
(* sendPlanToWallet, called by onClickSendToWallet. The execution is held  *)
(* as a record of its variables; each operator below is the code between   *)
(* two awaits.                                                             *)
(***************************************************************************)
Cur == [ppc |-> ppc, approving |-> approving, stakeAmountWei |-> stakeAmountWei,
        txHash |-> txHash, tries |-> tries, delayMs |-> delayMs,
        isSendingTx |-> isSendingTx, messages |-> messages, log |-> log, err |-> err]

Commit(L) ==
    /\ ppc' = L.ppc /\ approving' = L.approving /\ stakeAmountWei' = L.stakeAmountWei
    /\ txHash' = L.txHash /\ tries' = L.tries /\ delayMs' = L.delayMs
    /\ isSendingTx' = L.isSendingTx /\ messages' = L.messages /\ log' = L.log /\ err' = L.err

\* pushMessage({ role, text })
Push(L, role, text) == [L EXCEPT !.messages = Append(@, [role |-> role, text |-> text])]

Logged(L, e) == [L EXCEPT !.log = Append(@, e)]

\* onClickSendToWallet has no finally: the flag stays set after a failure
ThrowKeepingFlag(L, raw) ==
    [Push(L, "error", sanitizeTxError(raw)) EXCEPT !.ppc = "failed", !.err = raw,
                                                   !.txHash = <<>>, !.tries = 0, !.delayMs = 0]

\* sendPlanToWallet throws raw: the catch and the finally of onClickSendToWallet
\* (the locals of a running waitForReceipt are gone)
Throw(L, raw) ==
    [Push(L, "error", sanitizeTxError(raw)) EXCEPT !.ppc = "failed", !.err = raw, !.isSendingTx = FALSE,
                                                   !.txHash = <<>>, !.tries = 0, !.delayMs = 0]

\* waitForReceipt returns: its locals are gone
EndWait(L) == [L EXCEPT !.txHash = <<>>, !.tries = 0, !.delayMs = 0]

\* sendTx(prepareTransaction({ chain, to, data, value })) is called
CallSendTx(L, step, to, data, value, at) ==
    [Logged(L, [op |-> "sendTx", step |-> step,
                tx |-> [chainId |-> plan.tx[1].chainId, to |-> to, data |-> data, value |-> value]])
        EXCEPT !.ppc = at]

\* lines 546-558: the planned transaction is prepared and handed to the wallet
SubmitPlanned(L) ==
    LET value == BigIntOfDecimal(plan.tx[1].value)
        L1    == Push(L, "system", <<"Preparing transaction...">>)
    IN  IF ~value.ok THEN Throw(L1, value.error)
        ELSE CallSendTx(L1, "planned", plan.tx[1].to, plan.tx[1].data, value.val, "sendTx")

\* lines 478-558, up to the first await
AfterChain(L) ==
    IF plan.actionType = "STAKE" THEN
        LET tokenRaw == env.VITE_URANO_TOKEN
            amount   == decodeFirstUint256Arg(plan.tx[1].data)
        IN  IF tokenRaw = <<>> \/ ~isHexAddress(tokenRaw)
            THEN Throw(L, "Missing/invalid VITE_URANO_TOKEN in frontend env.")
            ELSE IF ~amount.ok THEN Throw(L, amount.error)
            ELSE [CallSendTx(Push(L, "system", <<"Preparing approval...">>), "approve", tokenRaw,
                             encodeErc20Approve(plan.tx[1].to, amount.val), <<"0">>, "sendApprove")
                    EXCEPT !.approving = "STAKE", !.stakeAmountWei = amount.val]
    ELSE IF plan.actionType = "BUY_USHARE" THEN
        LET usdcRaw == env.VITE_USDC_TOKEN
        IN  IF usdcRaw = <<>> \/ ~isHexAddress(usdcRaw)
            THEN Throw(L, "Missing/invalid VITE_USDC_TOKEN in frontend env.")
            ELSE [CallSendTx(Push(L, "system", <<"Preparing USDC approval...">>), "approve", usdcRaw,
                             encodeErc20Approve(plan.tx[1].to, MAX_UINT256), <<"0">>, "sendApprove")
                    EXCEPT !.approving = "BUY_USHARE"]
    ELSE SubmitPlanned(L)

\* The receipt of the approval is not awaited: the planned transaction is
\* handed to the wallet while the approval is still pending
StartWaitUnawaited(L, hash, at) ==
    LET L1 == Logged(L, [op |-> "waitForReceipt", txHash |-> hash])
    IN  IF at = "waitApprove" THEN SubmitPlanned(L1)
        ELSE [L1 EXCEPT !.ppc = at, !.txHash = hash, !.tries = 0, !.delayMs = InitialDelayMs]

\* waitForReceipt({ txHash }) is called: the first poll is under way
StartWait(L, hash, at) ==
    [Logged(L, [op |-> "waitForReceipt", txHash |-> hash])
        EXCEPT !.ppc = at, !.txHash = hash, !.tries = 0, !.delayMs = InitialDelayMs]

\* preflightStake is called: both reads are issued
StartPreflight(L) ==
    LET token   == env.VITE_URANO_TOKEN
        spender == plan.tx[1].to
        L1 == Logged(L,  [op |-> "eth_call", to |-> token, data |-> encodeBalanceOf(account[1])])
        L2 == Logged(L1, [op |-> "eth_call", to |-> token, data |-> encodeAllowance(account[1], spender)])
    IN  [L2 EXCEPT !.ppc = "preflight"]

\* The status of the receipt is never looked at
RevertedUnchecked(receipt) == FALSE

\* receipt.status && receipt.status !== "0x1"
Reverted(receipt) ==
    receipt.status # <<>> /\ receipt.status[1] # <<>> /\ receipt.status[1] # Status1

\* The pre-flight reads are left out: the planned transaction follows the
\* receipt of the approval at once
AfterApproveReceiptNoPreflight(L, receipt) ==
    IF Reverted(receipt)
    THEN Throw(L, IF L.approving = "STAKE" THEN "Approve reverted (status=0x0)."
                  ELSE "USDC approve reverted (status=0x0).")
    ELSE IF L.approving = "STAKE"
         THEN SubmitPlanned(Push(L, "system", <<"Approval confirmed.">>))
         ELSE SubmitPlanned(Push(L, "system", <<"USDC approval confirmed.">>))

\* waitForReceipt has returned receipt for the approval (lines 504-544)
AfterApproveReceipt(L, receipt) ==
    IF Reverted(receipt)
    THEN Throw(L, IF L.approving = "STAKE" THEN "Approve reverted (status=0x0)."
                  ELSE "USDC approve reverted (status=0x0).")
    ELSE IF L.approving = "STAKE"
         THEN StartPreflight(Push(L, "system", <<"Approval confirmed.">>))
         ELSE SubmitPlanned(Push(L, "system", <<"USDC approval confirmed.">>))

\* waitForReceipt has returned receipt for the planned transaction (lines 562-566)
AfterTxReceipt(L, receipt) ==
    IF Reverted(receipt)
    THEN Throw(L, "Transaction reverted (status=0x0).")
    ELSE [Push(L, "system", <<"Transaction confirmed.">>) EXCEPT !.ppc = "done", !.isSendingTx = FALSE]

(***************************************************************************)
(* Actions of the plan execution                                           *)
(***************************************************************************)
rpcs == pickRpcUrls(env.VITE_RPC_URL)

\* The wallet is looked at before the plan
sendPlanToWalletAccountFirst(L) ==
    IF account = <<>> THEN Throw(L, "Connect your wallet first.")
    ELSE IF plan.tx = <<>> THEN Throw(L, "No transaction to send.")
    ELSE IF walletChain = <<>> \/ walletChain[1] # plan.tx[1].chainId
         THEN [Logged(L, [op |-> "switchChain", chainId |-> plan.tx[1].chainId])
                  EXCEPT !.ppc = "switchChain"]
         ELSE AfterChain(L)

\* sendPlanToWallet(plan) up to its first await (lines 469-476 and on)
sendPlanToWallet(L) ==
    IF plan.tx = <<>> THEN Throw(L, "No transaction to send.")
    ELSE IF account = <<>> THEN Throw(L, "Connect your wallet first.")
    ELSE IF walletChain = <<>> \/ walletChain[1] # plan.tx[1].chainId
         THEN [Logged(L, [op |-> "switchChain", chainId |-> plan.tx[1].chainId])
                  EXCEPT !.ppc = "switchChain"]
         ELSE AfterChain(L)

\* onClickSendToWallet(plan): sendPlanToWallet runs up to its first await
ClickSendToWallet ==
    /\ ppc = "idle"
    /\ Commit(sendPlanToWallet([Cur EXCEPT !.isSendingTx = TRUE]))
    /\ UNCHANGED <<plan, account, walletChain, env>>
    /\ UNCHANGED <<streamVars, chatVars, rpcVars, ctlVars, codecVars, fetchVars>>

MaxClicks == 2     \* the send buttons are clicked at most MaxClicks times

\* The button is enabled while an execution runs
canSendWalletAlways(acc, sending) == acc # <<>>

\* const canSendWallet = Boolean(account) && !isSendingTx (line 591)
canSendWallet(acc, sending) == acc # <<>> /\ ~sending

\* a click on the "Send to wallet" button of a plan card (lines 587-592 and
\* 693-696): the card is rendered for a plan with a transaction and the
\* button is disabled unless canSendWallet; onClickSendToWallet(plan) runs up
\* to the first await of sendPlanToWallet
SendButtonClick ==
    /\ plan.tx # <<>>
    /\ canSendWallet(account, isSendingTx)
    /\ clicks < MaxClicks
    /\ clicks' = clicks + 1
    /\ Commit(sendPlanToWallet([Cur EXCEPT !.isSendingTx = TRUE]))
    /\ UNCHANGED <<plan, account, walletChain, env>>
    /\ UNCHANGED <<signal, abortRef, aborted, inflight, outcome>>
    /\ UNCHANGED <<streamVars, chatVars, rpcVars, codecVars, fetchVars>>

\* A rejected switch is swallowed: the execution goes on on the old chain
SwitchChainSettlesUnchecked ==
    /\ ppc = "switchChain"
    /\ \/ Commit(AfterChain(Logged(Cur, [op |-> "switched", chainId |-> plan.tx[1].chainId])))
       \/ Commit(AfterChain(Cur))
    /\ UNCHANGED <<plan, account, walletChain, env>>
    /\ UNCHANGED <<streamVars, chatVars, rpcVars, ctlVars, codecVars, fetchVars>>

\* await switchChain(chain) settles
SwitchChainSettles ==
    /\ ppc = "switchChain"
    /\ \/ Commit(AfterChain(Logged(Cur, [op |-> "switched", chainId |-> plan.tx[1].chainId])))
       \/ Commit(Throw(Cur, "User rejected the request."))
    /\ UNCHANGED <<plan, account, walletChain, env>>
    /\ UNCHANGED <<streamVars, chatVars, rpcVars, ctlVars, codecVars, fetchVars>>

\* await sendTx(approveTx) settles (lines 500-503 and 535-538)
SendApproveSettles ==
    /\ ppc = "sendApprove"
    /\ \/ \E res \in SendResults :
            LET L1 == Logged(Cur, [op |-> "sent", result |-> res])
            IN  IF ~isSendTxResult(res)
                THEN Commit(Throw(L1, "Unexpected approve result (missing transactionHash)."))
                ELSE Commit(StartWait(L1, res.transactionHash, "waitApprove"))
       \/ \E e \in WalletErrors : Commit(Throw(Cur, e))
    /\ UNCHANGED <<plan, account, walletChain, env>>
    /\ UNCHANGED <<streamVars, chatVars, rpcVars, ctlVars, codecVars, fetchVars>>

\* A submission that the wallet rejected is made once more
SendTxSettlesRetrying ==
    /\ ppc = "sendTx"
    /\ \/ \E res \in SendResults :
            LET L1 == Logged(Cur, [op |-> "sent", result |-> res])
            IN  IF ~isSendTxResult(res)
                THEN Commit(Throw(L1, "Unexpected send result (missing transactionHash)."))
                ELSE Commit(StartWait(L1, res.transactionHash, "waitTx"))
       \/ \E e \in WalletErrors :
            IF Len(SelectSeq(log, LAMBDA x : x.op = "sendTx")) < 3
            THEN Commit(SubmitPlanned(Cur))
            ELSE Commit(Throw(Cur, e))
    /\ UNCHANGED <<plan, account, walletChain, env>>
    /\ UNCHANGED <<streamVars, chatVars, rpcVars, ctlVars, codecVars, fetchVars>>

\* await sendTx(tx) settles (lines 558-561)
SendTxSettles ==
    /\ ppc = "sendTx"
    /\ \/ \E res \in SendResults :
            LET L1 == Logged(Cur, [op |-> "sent", result |-> res])
            IN  IF ~isSendTxResult(res)
                THEN Commit(Throw(L1, "Unexpected send result (missing transactionHash)."))
                ELSE Commit(StartWait(L1, res.transactionHash, "waitTx"))
       \/ \E e \in WalletErrors : Commit(Throw(Cur, e))
    /\ UNCHANGED <<plan, account, walletChain, env>>
    /\ UNCHANGED <<streamVars, chatVars, rpcVars, ctlVars, codecVars, fetchVars>>

\* A poll in which every endpoint failed counts as a poll without receipt
AfterPollAbsentOnError(L, r) ==
    IF r.ok /\ r.result # <<>>
    THEN LET L1 == EndWait(Logged(L, [op |-> "receipt", receipt |-> r.result[1]]))
         IN  IF L.ppc = "waitApprove" THEN AfterApproveReceipt(L1, r.result[1])
             ELSE AfterTxReceipt(L1, r.result[1])
    ELSE [L EXCEPT !.ppc = IF L.ppc = "waitApprove" THEN "sleepApprove" ELSE "sleepTx"]

\* waitForReceipt after await rpcGetReceipt(...) has settled with r (lines
\* 214-232): an error of rpcCallWithFallback leaves waitForReceipt and
\* sendPlanToWallet, a receipt ends the wait, null starts the delay
AfterPoll(L, r) ==
    IF ~r.ok THEN Throw(L, r.error)
    ELSE IF r.result # <<>>
    THEN LET L1 == EndWait(Logged(L, [op |-> "receipt", receipt |-> r.result[1]]))
         IN  IF L.ppc = "waitApprove" THEN AfterApproveReceipt(L1, r.result[1])
             ELSE AfterTxReceipt(L1, r.result[1])
    ELSE [L EXCEPT !.ppc = IF L.ppc = "waitApprove" THEN "sleepApprove" ELSE "sleepTx"]

\* await rpcGetReceipt(...) settles inside waitForReceipt: the endpoints
\* answer resps
PollReceipt ==
    /\ ppc \in {"waitApprove", "waitTx"}
    /\ \E resps \in [1..Len(rpcs) -> PollResponses] :
        Commit(AfterPoll(Cur, rpcCallWithFallback(rpcs, resps)))
    /\ UNCHANGED <<plan, account, walletChain, env>>
    /\ UNCHANGED <<streamVars, chatVars, rpcVars, ctlVars, codecVars, fetchVars>>

\* The loop runs while i <= maxTries
DelayElapsedOnceMore ==
    /\ ppc \in {"sleepApprove", "sleepTx"}
    /\ LET L1 == [Cur EXCEPT !.delayMs = NextDelay(delayMs), !.tries = tries + 1] IN
       IF tries + 1 <= maxTries
       THEN Commit([L1 EXCEPT !.ppc = IF ppc = "sleepApprove" THEN "waitApprove" ELSE "waitTx"])
       ELSE Commit(Throw(L1, "Timed out waiting for transaction receipt"))
    /\ UNCHANGED <<plan, account, walletChain, env>>
    /\ UNCHANGED <<streamVars, chatVars, rpcVars, ctlVars, codecVars, fetchVars>>

\* the timer of waitForReceipt fires: the next poll, or the timeout
DelayElapsed ==
    /\ ppc \in {"sleepApprove", "sleepTx"}
    /\ LET L1 == [Cur EXCEPT !.delayMs = NextDelay(delayMs), !.tries = tries + 1] IN
       IF tries + 1 < maxTries
       THEN Commit([L1 EXCEPT !.ppc = IF ppc = "sleepApprove" THEN "waitApprove" ELSE "waitTx"])
       ELSE Commit(Throw(L1, "Timed out waiting for transaction receipt"))
    /\ UNCHANGED <<plan, account, walletChain, env>>
    /\ UNCHANGED <<streamVars, chatVars, rpcVars, ctlVars, codecVars, fetchVars>>

\* what fetch rejects with when its signal is aborted
AbortError == "The operation was aborted."

\* No listener is put on the signal: the timer keeps running after the abort
SignalAbortsUnheard ==
    /\ signal = <<FALSE>>
    /\ ppc \in {"waitApprove", "waitTx", "sleepApprove", "sleepTx"}
    /\ signal' = <<TRUE>>
    /\ IF ppc \in {"sleepApprove", "sleepTx"} THEN Commit(Cur)
       ELSE Commit(Throw(Cur, AbortError))
    /\ UNCHANGED <<plan, account, walletChain, env>>
    /\ UNCHANGED <<abortRef, aborted, inflight, outcome, clicks>>
    /\ UNCHANGED <<streamVars, chatVars, rpcVars, codecVars, fetchVars>>

\* args.signal is aborted while waitForReceipt runs. In the delay the abort
\* listener clears the timer and rejects with Error("Aborted") (lines
\* 234-244); in a poll the fetch of rpcRequest rejects, for every endpoint
\* (lines 176-193)
SignalAborts ==
    /\ signal = <<FALSE>>
    /\ ppc \in {"waitApprove", "waitTx", "sleepApprove", "sleepTx"}
    /\ signal' = <<TRUE>>
    /\ IF ppc \in {"sleepApprove", "sleepTx"} THEN Commit(Throw(Cur, "Aborted"))
       ELSE Commit(Throw(Cur, AbortError))
    /\ UNCHANGED <<plan, account, walletChain, env>>
    /\ UNCHANGED <<abortRef, aborted, inflight, outcome, clicks>>
    /\ UNCHANGED <<streamVars, chatVars, rpcVars, codecVars, fetchVars>>

\* erc20ReadUint256, given the answers of the endpoints
erc20ReadUint256(resps) ==
    LET r == rpcCallWithFallback(rpcs, resps)
    IN  IF r.ok THEN parseUint256Hex(r.result) ELSE Thrown(r.error)

\* The allowance is not compared with the amount
preflightStakeBalanceOnly(bal, allow, amountWei) ==
    IF BigLess(bal, amountWei) THEN Thrown("Insufficient URANO balance.")
    ELSE Returned(<<>>)

\* preflightStake after both reads have returned (lines 454-465)
preflightStake(bal, allow, amountWei) ==
    IF BigLess(bal, amountWei) THEN Thrown("Insufficient URANO balance.")
    ELSE IF BigLess(allow, amountWei) THEN Thrown("Allowance is still insufficient after approval.")
    ELSE Returned(<<>>)

\* await Promise.all([balanceOf, allowance]) settles inside preflightStake,
\* then the planned transaction is submitted (lines 449-466, 546-558)
PreflightSettles ==
    /\ ppc = "preflight"
    /\ \E balResps \in [1..Len(rpcs) -> ReadResponses] :
        LET bal == erc20ReadUint256(balResps) IN
        \E allowResps \in [1..Len(rpcs) -> ReadResponses] :
        LET allow  == erc20ReadUint256(allowResps)
            failed == {x \in {bal, allow} : ~x.ok}
        IN  IF failed # {} THEN \E x \in failed : Commit(Throw(Cur, x.error))
            ELSE LET L1 == Logged(Cur, [op |-> "reads", bal |-> bal.val, allow |-> allow.val])
                     pf == preflightStake(bal.val, allow.val, stakeAmountWei)
                 IN  IF ~pf.ok THEN Commit(Throw(L1, pf.error))
                     ELSE Commit(SubmitPlanned(L1))
    /\ UNCHANGED <<plan, account, walletChain, env>>
    /\ UNCHANGED <<streamVars, chatVars, rpcVars, ctlVars, codecVars, fetchVars>>

(***************************************************************************)
(* The conversation: onSend, buildPayload and the onEvent of startStreaming.*)
(* A text is a sequence of pieces; "" is <<>>. An optional field is <<>>   *)
(* when it is undefined and <<v>> when it has the value v.                 *)
(***************************************************************************)
MAX_HISTORY == 30

\* The first tx is not looked at
isActionablePlanTypeOnly(p) ==
    IF p.actionType = "QUESTION" THEN FALSE
    ELSE IF p.actionType = "UNSUPPORTED" THEN FALSE
    ELSE TRUE

\* isActionablePlan (lines 103-108)
isActionablePlan(p) ==
    IF p.tx = <<>> THEN FALSE
    ELSE IF p.actionType = "QUESTION" THEN FALSE
    ELSE IF p.actionType = "UNSUPPORTED" THEN FALSE
    ELSE TRUE

\* a Msg without a plan; uid() is modelled by the position of the message
Message(id, role, text) == [id |-> id, role |-> role, text |-> text, plan |-> <<>>]

Greeting == <<"Hello. How can I help you today?">>

Max(a, b) == IF a > b THEN a ELSE b

\* nextMsgs.filter((m) => m.role === "user" || m.role === "assistant")
ChatOnly(msgs) == SelectSeq(msgs, LAMBDA m : m.role \in {"user", "assistant"})

\* .map((m) => ({ role: m.role, content: m.text }))
ToChatMessages(msgs) == [i \in 1..Len(msgs) |-> [role |-> msgs[i].role, content |-> msgs[i].text]]

\* buildPayload: the start of the slice is computed from nextMsgs.length
buildPayload(nextMsgs) ==
    ToChatMessages(SliceFrom(ChatOnly(nextMsgs), Max(0, Len(nextMsgs) - MAX_HISTORY)))

\* plan.userMessage ?? ""
UserMessage(p) == IF p.userMessage = <<>> THEN <<>> ELSE p.userMessage[1]

\* The plan of the message is left as it was when the new one is not actionable
applyPlanKeeping(msgs, id, p) ==
    [i \in 1..Len(msgs) |->
        IF msgs[i].id # id THEN msgs[i]
        ELSE IF isActionablePlan(p) THEN [msgs[i] EXCEPT !.text = UserMessage(p), !.plan = <<p>>]
        ELSE [msgs[i] EXCEPT !.text = UserMessage(p)]]

\* the setMessages of a plan event (lines 346-360)
applyPlan(msgs, id, p) ==
    [i \in 1..Len(msgs) |->
        IF msgs[i].id # id THEN msgs[i]
        ELSE IF isActionablePlan(p) THEN [msgs[i] EXCEPT !.text = UserMessage(p), !.plan = <<p>>]
        ELSE [msgs[i] EXCEPT !.text = UserMessage(p), !.plan = <<>>]]

\* The delta goes to every assistant message, whatever its id
applyDeltaToAssistants(msgs, id, delta) ==
    [i \in 1..Len(msgs) |->
        IF msgs[i].role # "assistant" THEN msgs[i]
        ELSE IF msgs[i].plan # <<>> THEN msgs[i]
        ELSE [msgs[i] EXCEPT !.text = @ \o delta]]

\* the setMessages of a delta event (lines 370-376)
applyDelta(msgs, id, delta) ==
    [i \in 1..Len(msgs) |->
        IF msgs[i].id # id THEN msgs[i]
        ELSE IF msgs[i].plan # <<>> THEN msgs[i]
        ELSE [msgs[i] EXCEPT !.text = @ \o delta]]

\* Deltas are applied whether or not a plan has been received
onDeltaUnflagged(msgs, id, gotPlan, evtDelta) ==
    IF evtDelta = <<>> \/ evtDelta[1] = <<>> THEN msgs
    ELSE applyDelta(msgs, id, evtDelta[1])

\* the delta branch of onEvent (lines 365-378)
onDelta(msgs, id, gotPlan, evtDelta) ==
    IF gotPlan THEN msgs
    ELSE IF evtDelta = <<>> \/ evtDelta[1] = <<>> THEN msgs
    ELSE applyDelta(msgs, id, evtDelta[1])

\* `Assistant error: ${evt.error}${evt.message ? ` - ${evt.message}` : ""}`
errorText(evt) ==
    <<"Assistant error: ", evt.error>> \o
    (IF evt.message # <<>> /\ evt.message[1] # "" THEN <<" - ", evt.message[1]>> ELSE <<>>)

\* pushMessage on the conversation
pushMessage(msgs, role, text) == Append(msgs, Message(Len(msgs) + 1, role, text))

MaxTurns == 3      \* onSend starts at most MaxTurns turns
MaxEvents == 3     \* the streams of a conversation deliver at most MaxEvents events
MaxConv == 33      \* a conversation that is sent has at most MaxConv messages
MaxNoise == 2      \* of which at most MaxNoise in a row are system or error messages

\* what the user can have typed
Inputs == {<<>>, <<" ">>, <<" ", "h", "i", " ">>}

\* what the planner says in a plan of a given action type
SaysFor(actionType) ==
    CASE actionType = "STAKE"    -> <<<<"Done">>>>
      [] actionType = "QUESTION" -> <<<<"Which token?">>>>
      [] OTHER                   -> <<>>

\* the plans a plan event can carry
PlanEvents == {[actionType |-> a, tx |-> t, txs |-> ts, userMessage |-> SaysFor(a)] :
                  a \in {"STAKE", "QUESTION", "UNSUPPORTED"},
                  t \in {<<>>, <<StakeTx>>},
                  ts \in {<<>>, <<ApproveUranoTx, StakeTx>>}}

\* evt.delta of a delta event
DeltaEvents == {<<>>, <<<<"Hel">>>>, <<<<"lo">>>>}

ErrorEvents == {[type |-> "error", error |-> "BAD_PLAN_EVENT", message |-> <<"boom">>]}

\* abort() is never called
abortNothing(ref, ab) == ab

\* abortRef.current?.abort(): the controllers aborted so far are ab
abortCurrent(ref, ab) == ab \cup {ref[i] : i \in DOMAIN ref}

\* onSend (lines 401-416) with the synchronous start of startStreaming
\* (lines 326-331); nothing happens when the input is blank or a stream runs.
\* The controller of the stream is named by the number of the turn.
onSend ==
    /\ ~isStreaming
    /\ turns < MaxTurns
    /\ \E input \in Inputs :
        /\ Trim(input) # <<>>
        /\ messages' = messages \o <<Message(Len(messages) + 1, "user", Trim(input)),
                                     Message(Len(messages) + 2, "assistant", <<>>)>>
        /\ payload' = buildPayload(Append(messages, Message(Len(messages) + 1, "user", Trim(input))))
    /\ assistantId' = <<Len(messages) + 2>>
    /\ isStreaming' = TRUE /\ planReceived' = FALSE
    /\ lastPlan' = <<>> /\ lastType' = "none" /\ turns' = turns + 1
    /\ aborted' = abortCurrent(abortRef, aborted)
    /\ abortRef' = <<turns + 1>>
    /\ inflight' = inflight \cup {turns + 1}
    /\ UNCHANGED <<nEvents, signal, outcome, clicks>>
    /\ UNCHANGED <<plan, account, walletChain, env, ppc, approving, stakeAmountWei, txHash,
                   tries, delayMs, isSendingTx, log, err>>
    /\ UNCHANGED <<streamVars, rpcVars, codecVars, fetchVars>>

\* what no event of a stream changes; the events come from the stream of the
\* latest startStreaming, while it is in flight and not aborted
EventFrame ==
    /\ turns \in inflight
    /\ ~signalAborted(turns, aborted)
    /\ nEvents < MaxEvents
    /\ nEvents' = nEvents + 1
    /\ UNCHANGED <<isStreaming, assistantId, payload, turns>>
    /\ UNCHANGED <<plan, account, walletChain, env, ppc, approving, stakeAmountWei, txHash,
                   tries, delayMs, isSendingTx, log, err>>
    /\ UNCHANGED <<streamVars, rpcVars, ctlVars, codecVars, fetchVars>>

\* onEvent of a plan event (lines 342-363)
OnPlanEvent ==
    /\ EventFrame
    /\ \E p \in PlanEvents :
        /\ messages' = applyPlan(messages, assistantId[1], p)
        /\ lastPlan' = <<p>>
    /\ planReceived' = TRUE /\ lastType' = "plan"

\* onEvent of a delta event (lines 365-378)
OnDeltaEvent ==
    /\ EventFrame
    /\ \E d \in DeltaEvents : messages' = onDelta(messages, assistantId[1], planReceived, d)
    /\ lastType' = "delta"
    /\ UNCHANGED <<planReceived, lastPlan>>

\* onEvent of an error event (lines 380-387)
OnErrorEvent ==
    /\ EventFrame
    /\ \E evt \in ErrorEvents : messages' = pushMessage(messages, "error", errorText(evt))
    /\ lastType' = "error"
    /\ UNCHANGED <<planReceived, lastPlan>>

\* onEvent of a ready or done event (line 389)
OnOtherEvent ==
    /\ EventFrame
    /\ lastType' = "other"
    /\ UNCHANGED <<messages, planReceived, lastPlan>>

ChatFrame ==
    /\ UNCHANGED <<planReceived, assistantId, payload, lastPlan, lastType, turns, nEvents>>
    /\ UNCHANGED <<plan, account, walletChain, env, ppc, approving, stakeAmountWei, txHash,
                   tries, delayMs, isSendingTx, log, err>>
    /\ UNCHANGED <<signal, clicks>>
    /\ UNCHANGED <<streamVars, rpcVars, codecVars, fetchVars>>

\* the finally of the startStreaming whose controller is id (lines 395-398)
Finally(id) ==
    /\ abortRef' = (IF abortRef = <<id>> THEN <<>> ELSE abortRef)
    /\ isStreaming' = FALSE
    /\ inflight' = inflight \ {id}
    /\ UNCHANGED aborted

\* The error is shown whether or not the stream was aborted
catchStreamingAlways(msgs, isAborted, msg) ==
    pushMessage(msgs, "error", <<"Streaming failed: ", msg>>)

\* the catch of startStreaming (lines 390-394): isAborted is ac.signal.aborted
catchStreaming(msgs, isAborted, msg) ==
    IF ~isAborted THEN pushMessage(msgs, "error", <<"Streaming failed: ", msg>>) ELSE msgs

\* streamChat returns for a stream that was not aborted: the finally of
\* startStreaming (lines 395-398)
StreamEnds ==
    /\ \E id \in inflight \ aborted : Finally(id)
    /\ outcome' = "returned"
    /\ UNCHANGED messages
    /\ ChatFrame

\* streamChat throws, because the transport failed or because the signal
\* was aborted: the catch and the finally of startStreaming (lines 390-398)
StreamFails ==
    /\ \E id \in inflight :
        /\ messages' = catchStreaming(messages, id \in aborted,
                                      IF id \in aborted THEN AbortError ELSE "Failed to fetch")
        /\ outcome' = (IF id \in aborted THEN "aborted" ELSE "failed")
        /\ Finally(id)
    /\ ChatFrame

\* close (lines 308-313): the current stream is aborted and the widget hidden
close ==
    /\ aborted' = abortCurrent(abortRef, aborted)
    /\ abortRef' = <<>>
    /\ isStreaming' = FALSE
    /\ UNCHANGED <<messages, inflight, outcome>>
    /\ ChatFrame

(***************************************************************************)
(* streamChat from the call of fetch to the end of the await in            *)
(* startStreaming. The body of the response is stream.                     *)
(***************************************************************************)
\* what fetch can resolve with: ok is res.ok, body is res.body !== null,
\* readable tells whether res.text() can read the body
ChatResponses ==
    {[ok |-> TRUE,  status |-> "200", statusText |-> "OK", body |-> TRUE, readable |-> TRUE],
     [ok |-> TRUE,  status |-> "200", statusText |-> "OK", body |-> FALSE, readable |-> TRUE],
     [ok |-> FALSE, status |-> "500", statusText |-> "Internal Server Error",
      body |-> TRUE, readable |-> TRUE],
     [ok |-> FALSE, status |-> "502", statusText |-> "Bad Gateway",
      body |-> TRUE, readable |-> FALSE],
     [ok |-> FALSE, status |-> "401", statusText |-> "Unauthorized",
      body |-> FALSE, readable |-> TRUE]}

\* await res.text().catch(() => ""): the whole body decoded, "" when there
\* is no body or it cannot be read
ResponseText(r, bs) ==
    IF r.body /\ r.readable
    THEN DecodeBytes(<<>>, bs).text
            \o (IF DecodeBytes(<<>>, bs).pending # <<>> THEN <<Replacement>> ELSE <<>>)
    ELSE <<>>

\* A response that is not ok is read like any other
afterResponseStatusUnchecked(r, bs) ==
    IF ~r.body
    THEN [spc |-> "failed", thrown |-> <<<<"No response body (stream not supported).">>>>]
    ELSE [spc |-> "reading", thrown |-> <<>>]

\* streamChat between the await of fetch and the read loop (lines 106-114):
\* where it is then, and what it has thrown
afterResponse(r, bs) ==
    IF ~r.ok
    THEN [spc |-> "failed",
          thrown |-> <<<<"HTTP ", r.status, ": ">>
                        \o (IF ResponseText(r, bs) # <<>> THEN ResponseText(r, bs)
                            ELSE <<r.statusText>>)>>]
    ELSE IF ~r.body
    THEN [spc |-> "failed", thrown |-> <<<<"No response body (stream not supported).">>>>]
    ELSE [spc |-> "reading", thrown |-> <<>>]

\* await fetch(...) resolves (lines 95-114)
FetchSettles ==
    /\ spc = "fetching"
    /\ ~signalAborted(turns, aborted)
    /\ \E r \in ChatResponses :
        /\ response' = <<r>>
        /\ spc' = afterResponse(r, stream).spc
        /\ thrown' = afterResponse(r, stream).thrown
    /\ UNCHANGED <<stream, pos, pending, buf, currentEvent, events, received, seps, cuts>>
    /\ UNCHANGED <<planVars, chatVars, rpcVars, ctlVars, codecVars>>

\* await fetch(...) rejects: the server cannot be reached (line 95)
FetchFails ==
    /\ spc = "fetching"
    /\ ~signalAborted(turns, aborted)
    /\ spc' = "failed"
    /\ thrown' = <<<<"Failed to fetch">>>>
    /\ UNCHANGED <<stream, pos, pending, buf, currentEvent, events, received, seps, cuts>>
    /\ UNCHANGED <<planVars, chatVars, rpcVars, ctlVars, codecVars, response>>

\* The lock is kept when the loop is left by an exception
lockAfterThrowKept == "failed"

\* the finally of the read loop (lines 209-215): reader.releaseLock()
lockAfterThrow == "released"

\* await reader.read() rejects: the connection broke (lines 191, 209-215)
ReadFails ==
    /\ spc = "reading"
    /\ ~signalAborted(turns, aborted)
    /\ spc' = lockAfterThrow
    /\ thrown' = <<<<"network error">>>>
    /\ UNCHANGED <<stream, pos, pending, buf, currentEvent, events, received, seps, cuts>>
    /\ UNCHANGED <<planVars, chatVars, rpcVars, ctlVars, codecVars, response>>

\* reader.read() returns the next n bytes and the k-th call of onEvent for
\* them throws: the exception leaves flushBlock and the loop, the lock is
\* released (lines 190-215; the locals of streamChat are gone)
SinkThrows ==
    /\ spc = "reading"
    /\ ~signalAborted(turns, aborted)
    /\ \E n \in (1..Min(MaxChunk, Len(stream) - pos)) \cup ({Len(stream) - pos} \ {0}) :
       \E d \in {Decode(pending, SubSeq(stream, pos + 1, pos + n))} :
       \E r \in {DrainBuffer(buf \o d.text, currentEvent, Len(received) - Len(buf))} :
       \E k \in 1..Len(r.events) :
            /\ pos' = pos + n
            /\ received' = received \o d.text
            /\ events' = events \o SubSeq(r.events, 1, k)
            /\ seps' = seps \o SubSeq(r.seps, 1, k)
            /\ cuts' = cuts \cup CutKind(pos + n)
    /\ pending' = <<>> /\ buf' = <<>> /\ currentEvent' = <<>>
    /\ spc' = lockAfterThrow
    /\ thrown' = <<<<"sink failed">>>>
    /\ UNCHANGED stream
    /\ UNCHANGED <<planVars, chatVars, rpcVars, ctlVars, codecVars, response>>

\* the signal has been aborted: the pending fetch or read rejects with the
\* AbortError (lines 95-104, 191, 209-215)
ReadAborted ==
    /\ spc \in {"fetching", "reading"}
    /\ signalAborted(turns, aborted)
    /\ spc' = (IF spc = "fetching" THEN "failed" ELSE lockAfterThrow)
    /\ thrown' = <<<<AbortError>>>>
    /\ UNCHANGED <<stream, pos, pending, buf, currentEvent, events, received, seps, cuts>>
    /\ UNCHANGED <<planVars, chatVars, rpcVars, ctlVars, codecVars, response>>

\* await streamChat(...) settles in startStreaming: the catch when it threw,
\* and the finally (lines 390-398)
AwaitSettles ==
    /\ spc \in {"released", "failed"}
    /\ turns \in inflight
    /\ messages' = (IF thrown = <<>> THEN messages
                    ELSE catchStreaming(messages, turns \in aborted, thrown[1]))
    /\ outcome' = (IF thrown = <<>> THEN "returned"
                   ELSE IF turns \in aborted THEN "aborted" ELSE "failed")
    /\ Finally(turns)
    /\ ChatFrame

\* a conversation of n messages after the greeting, the k messages from
\* position first being system and error messages
Conversation(n, first, k) ==
    [i \in 1..n |->
        Message(i,
                IF i >= first /\ i < first + k THEN (IF i % 2 = 0 THEN "system" ELSE "error")
                ELSE IF i % 2 = 1 THEN "assistant" ELSE "user",
                <<ToString(i)>>)]

Conversations ==
    {Conversation(n, first, k) : n \in 1..MaxConv, first \in 2..(MaxConv + 1), k \in 0..MaxNoise}

(***************************************************************************)
(* rpcCallWithFallback, one request at a time (lines 195-212)              *)
(***************************************************************************)
\* what an endpoint can answer to a request
RpcAnswers == {RespHttpFail, RespBadJson, RespRpcError, RespNoResult,
               RespResult(<<>>), RespResult(<<Status1>>)}

RpcEnvs == {[VITE_URANO_TOKEN |-> URANO, VITE_USDC_TOKEN |-> USDC, VITE_RPC_URL |-> u] :
                u \in {"", "https://rpc.example", BASE_SEPOLIA}}

\* The error of the first endpoint that failed is kept
caughtFirst(last, e) == IF last = <<>> THEN <<e>> ELSE last

\* catch (e) { lastErr = e; }
caught(last, e) == <<e>>

\* throw lastErr instanceof Error ? lastErr : new Error("All RPCs failed")
thrownAfterLoop(last) == Thrown(IF last = <<>> THEN "All RPCs failed" ELSE last[1])

\* The signal is not handed to fetch
rpcRequestUnsignalled(resp, isAborted) == rpcRequest(resp)

\* rpcRequest(rpcUrl, payload, signal), given the answer of the endpoint
\* (lines 176-193): when the signal is aborted, fetch or the read of the
\* body rejects and no later fetch sends a request
rpcRequestSignalled(resp, isAborted) ==
    IF isAborted THEN Thrown(AbortError) ELSE rpcRequest(resp)

\* rpcCallWithFallback is called: the request to the first endpoint is sent
CallRpc ==
    /\ rpcI = 0
    /\ rpcI' = 1 /\ lastErr' = <<>> /\ asked' = <<rpcs[1]>>
    /\ UNCHANGED <<rpcResps, rpcOut>>
    /\ UNCHANGED <<streamVars, planVars, chatVars, ctlVars, codecVars, fetchVars>>

\* await rpcRequest(rpcUrl, ...) settles: the call returns, or the error is
\* caught and the next endpoint is asked, or the loop is over and it throws
RequestSettles ==
    /\ rpcI \in 1..Len(rpcs)
    /\ \E r \in {rpcRequestSignalled(rpcResps[rpcI], signal = <<TRUE>>)} :
        IF r.ok
        THEN /\ rpcOut' = <<[ok |-> TRUE, rpcUrl |-> rpcs[rpcI], result |-> r.val]>>
             /\ rpcI' = Len(rpcs) + 1
             /\ UNCHANGED <<lastErr, asked>>
        ELSE /\ lastErr' = caught(lastErr, r.error)
             /\ rpcI' = rpcI + 1
             /\ IF rpcI < Len(rpcs)
                THEN /\ asked' = (IF signal = <<TRUE>> THEN asked
                                  ELSE Append(asked, rpcs[rpcI + 1]))
                     /\ UNCHANGED rpcOut
                ELSE rpcOut' = <<thrownAfterLoop(caught(lastErr, r.error))>> /\ UNCHANGED asked
    /\ UNCHANGED rpcResps
    /\ UNCHANGED <<streamVars, planVars, chatVars, ctlVars, codecVars, fetchVars>>

\* the signal handed to rpcCallWithFallback is aborted during an attempt
RpcSignalAborts ==
    /\ signal = <<FALSE>>
    /\ rpcI \in 1..Len(rpcs)
    /\ signal' = <<TRUE>>
    /\ UNCHANGED <<abortRef, aborted, inflight, outcome, clicks>>
    /\ UNCHANGED <<streamVars, planVars, chatVars, rpcVars, codecVars, fetchVars>>

(***************************************************************************)
(* encodeErc20Approve followed by decodeFirstUint256Arg                    *)
(***************************************************************************)
\* 2n ** 255n
TopBit == <<"8">> \o [i \in 1..63 |-> "0"]

\* the addresses and the amounts the two functions are tried on
Spenders == {STAKING, MARKET, OWNER, Addr("0"), Addr("f"),
             ZeroX \o [i \in 1..39 |-> "0"] \o <<"1">>}
Amounts == {<<"0">>, <<"1">>, Hundred, TopBit, MAX_UINT256,
            [i \in 1..40 |-> "2"]}

\* encodeErc20Approve(spender, amount) is called
EncodeApprove ==
    /\ calldata = <<>>
    /\ calldata' = <<encodeErc20Approve(argSpender, argAmount)>>
    /\ UNCHANGED <<argSpender, argAmount, decoded>>
    /\ UNCHANGED <<streamVars, planVars, chatVars, rpcVars, ctlVars, fetchVars>>

\* decodeFirstUint256Arg is called on what encodeErc20Approve returned
DecodeFirstArg ==
    /\ calldata # <<>> /\ decoded = <<>>
    /\ decoded' = <<decodeFirstUint256Arg(calldata[1])>>
    /\ UNCHANGED <<argSpender, argAmount, calldata>>
    /\ UNCHANGED <<streamVars, planVars, chatVars, rpcVars, ctlVars, fetchVars>>

(***************************************************************************)
(* Specifications                                                          *)
(***************************************************************************)
NextStream == ReadChunk \/ ReadDone

\* streamChat after the response has arrived with a body: the reader is
\* locked and nothing has been read; the widget sends no plan
InitStream ==
    /\ stream \in Streams
    /\ pos = 0 /\ pending = <<>> /\ buf = <<>>
    /\ currentEvent = <<>> /\ events = <<>> /\ received = <<>> /\ seps = <<>>
    /\ cuts = {} /\ spc = "reading"
    /\ plan = [actionType |-> "UNSTAKE", tx |-> <<>>, txs |-> <<>>]
    /\ account = <<>> /\ walletChain = <<>>
    /\ env = [VITE_URANO_TOKEN |-> URANO, VITE_USDC_TOKEN |-> USDC, VITE_RPC_URL |-> ""]
    /\ ppc = "idle" /\ approving = "none" /\ stakeAmountWei = <<>> /\ txHash = <<>>
    /\ tries = 0 /\ delayMs = 0 /\ isSendingTx = FALSE /\ messages = <<>> /\ log = <<>> /\ err = ""
    /\ isStreaming = FALSE /\ planReceived = FALSE /\ assistantId = <<>> /\ payload = <<>>
    /\ lastPlan = <<>> /\ lastType = "none" /\ turns = 0 /\ nEvents = 0
    /\ rpcResps = <<>> /\ rpcI = 0 /\ lastErr = <<>> /\ asked = <<>> /\ rpcOut = <<>>
    /\ signal = <<>> /\ abortRef = <<>> /\ aborted = {} /\ inflight = {} /\ outcome = "none"
    /\ clicks = 0
    /\ argSpender = <<>> /\ argAmount = <<>> /\ calldata = <<>> /\ decoded = <<>>
    /\ response = <<>> /\ thrown = <<>>

\* one stream, delivered in chunks
SpecStream == InitStream /\ [][NextStream]_vars

NextPlan ==
    \/ ClickSendToWallet
    \/ SwitchChainSettles
    \/ SendApproveSettles
    \/ SendTxSettles
    \/ PollReceipt
    \/ DelayElapsed
    \/ PreflightSettles

\* the plan, the wallet and the environment that onClickSendToWallet is
\* called with; nothing has been sent and no stream is open
InitPlan ==
    /\ plan \in Plans
    /\ account \in {<<>>, <<OWNER>>}
    /\ walletChain \in {<<>>, <<84532>>, <<1>>}
    /\ env \in Envs
    /\ ppc = "idle" /\ approving = "none" /\ stakeAmountWei = <<>> /\ txHash = <<>>
    /\ tries = 0 /\ delayMs = 0 /\ isSendingTx = FALSE /\ messages = <<>> /\ log = <<>> /\ err = ""
    /\ stream = <<>> /\ pos = 0 /\ pending = <<>> /\ buf = <<>>
    /\ currentEvent = <<>> /\ events = <<>> /\ received = <<>> /\ seps = <<>>
    /\ cuts = {} /\ spc = "idle"
    /\ isStreaming = FALSE /\ planReceived = FALSE /\ assistantId = <<>> /\ payload = <<>>
    /\ lastPlan = <<>> /\ lastType = "none" /\ turns = 0 /\ nEvents = 0
    /\ rpcResps = <<>> /\ rpcI = 0 /\ lastErr = <<>> /\ asked = <<>> /\ rpcOut = <<>>
    /\ signal = <<>> /\ abortRef = <<>> /\ aborted = {} /\ inflight = {} /\ outcome = "none"
    /\ clicks = 0
    /\ argSpender = <<>> /\ argAmount = <<>> /\ calldata = <<>> /\ decoded = <<>>
    /\ response = <<>> /\ thrown = <<>>

\* one execution of a plan
SpecPlan == InitPlan /\ [][NextPlan]_vars

NextChat ==
    \/ onSend
    \/ OnPlanEvent
    \/ OnDeltaEvent
    \/ OnErrorEvent
    \/ OnOtherEvent
    \/ StreamEnds
    \/ StreamFails

\* the widget after it is mounted: the greeting is the only message (lines 278-280)
InitChat ==
    /\ messages = <<Message(1, "assistant", Greeting)>>
    /\ isStreaming = FALSE /\ planReceived = FALSE /\ assistantId = <<>> /\ payload = <<>>
    /\ lastPlan = <<>> /\ lastType = "none" /\ turns = 0 /\ nEvents = 0
    /\ plan = [actionType |-> "UNSTAKE", tx |-> <<>>, txs |-> <<>>]
    /\ account = <<>> /\ walletChain = <<>>
    /\ ppc = "idle" /\ approving = "none" /\ stakeAmountWei = <<>> /\ txHash = <<>>
    /\ tries = 0 /\ delayMs = 0 /\ isSendingTx = FALSE /\ log = <<>> /\ err = ""
    /\ env = [VITE_URANO_TOKEN |-> URANO, VITE_USDC_TOKEN |-> USDC, VITE_RPC_URL |-> ""]
    /\ stream = <<>> /\ pos = 0 /\ pending = <<>> /\ buf = <<>>
    /\ currentEvent = <<>> /\ events = <<>> /\ received = <<>> /\ seps = <<>>
    /\ cuts = {} /\ spc = "idle"
    /\ rpcResps = <<>> /\ rpcI = 0 /\ lastErr = <<>> /\ asked = <<>> /\ rpcOut = <<>>
    /\ signal = <<>> /\ abortRef = <<>> /\ aborted = {} /\ inflight = {} /\ outcome = "none"
    /\ clicks = 0
    /\ argSpender = <<>> /\ argAmount = <<>> /\ calldata = <<>> /\ decoded = <<>>
    /\ response = <<>> /\ thrown = <<>>

\* a conversation of up to MaxTurns turns
SpecChat == InitChat /\ [][NextChat]_vars

NextPayload == onSend

\* a conversation in which no stream runs; the user sends one more message
InitPayload ==
    /\ messages \in Conversations
    /\ isStreaming = FALSE /\ planReceived = FALSE /\ assistantId = <<>> /\ payload = <<>>
    /\ lastPlan = <<>> /\ lastType = "none" /\ turns = 0 /\ nEvents = 0
    /\ plan = [actionType |-> "UNSTAKE", tx |-> <<>>, txs |-> <<>>]
    /\ account = <<>> /\ walletChain = <<>>
    /\ ppc = "idle" /\ approving = "none" /\ stakeAmountWei = <<>> /\ txHash = <<>>
    /\ tries = 0 /\ delayMs = 0 /\ isSendingTx = FALSE /\ log = <<>> /\ err = ""
    /\ env = [VITE_URANO_TOKEN |-> URANO, VITE_USDC_TOKEN |-> USDC, VITE_RPC_URL |-> ""]
    /\ stream = <<>> /\ pos = 0 /\ pending = <<>> /\ buf = <<>>
    /\ currentEvent = <<>> /\ events = <<>> /\ received = <<>> /\ seps = <<>>
    /\ cuts = {} /\ spc = "idle"
    /\ rpcResps = <<>> /\ rpcI = 0 /\ lastErr = <<>> /\ asked = <<>> /\ rpcOut = <<>>
    /\ signal = <<>> /\ abortRef = <<>> /\ aborted = {} /\ inflight = {} /\ outcome = "none"
    /\ clicks = 0
    /\ argSpender = <<>> /\ argAmount = <<>> /\ calldata = <<>> /\ decoded = <<>>
    /\ response = <<>> /\ thrown = <<>>

\* one onSend on a long conversation
SpecPayload == InitPayload /\ [][NextPayload]_vars

NextRpc == CallRpc \/ RequestSettles

\* the configured endpoints and what each answers; nothing is called yet
InitRpc ==
    /\ env \in RpcEnvs
    /\ rpcResps \in [1..Len(pickRpcUrls(env.VITE_RPC_URL)) -> RpcAnswers]
    /\ rpcI = 0 /\ lastErr = <<>> /\ asked = <<>> /\ rpcOut = <<>>
    /\ messages = <<>>
    /\ isStreaming = FALSE /\ planReceived = FALSE /\ assistantId = <<>> /\ payload = <<>>
    /\ lastPlan = <<>> /\ lastType = "none" /\ turns = 0 /\ nEvents = 0
    /\ plan = [actionType |-> "UNSTAKE", tx |-> <<>>, txs |-> <<>>]
    /\ account = <<>> /\ walletChain = <<>>
    /\ ppc = "idle" /\ approving = "none" /\ stakeAmountWei = <<>> /\ txHash = <<>>
    /\ tries = 0 /\ delayMs = 0 /\ isSendingTx = FALSE /\ log = <<>> /\ err = ""
    /\ stream = <<>> /\ pos = 0 /\ pending = <<>> /\ buf = <<>>
    /\ currentEvent = <<>> /\ events = <<>> /\ received = <<>> /\ seps = <<>>
    /\ cuts = {} /\ spc = "idle"
    /\ signal = <<>> /\ abortRef = <<>> /\ aborted = {} /\ inflight = {} /\ outcome = "none"
    /\ clicks = 0
    /\ argSpender = <<>> /\ argAmount = <<>> /\ calldata = <<>> /\ decoded = <<>>
    /\ response = <<>> /\ thrown = <<>>

\* one call of rpcCallWithFallback
SpecRpc == InitRpc /\ [][NextRpc]_vars

NextRpcSignal == CallRpc \/ RequestSettles \/ RpcSignalAborts

\* the configured endpoints and what each answers; nothing is called yet and
\* the signal the call will be given is not aborted
InitRpcSignal ==
    /\ env \in RpcEnvs
    /\ rpcResps \in [1..Len(pickRpcUrls(env.VITE_RPC_URL)) -> RpcAnswers]
    /\ rpcI = 0 /\ lastErr = <<>> /\ asked = <<>> /\ rpcOut = <<>>
    /\ messages = <<>>
    /\ isStreaming = FALSE /\ planReceived = FALSE /\ assistantId = <<>> /\ payload = <<>>
    /\ lastPlan = <<>> /\ lastType = "none" /\ turns = 0 /\ nEvents = 0
    /\ plan = [actionType |-> "UNSTAKE", tx |-> <<>>, txs |-> <<>>]
    /\ account = <<>> /\ walletChain = <<>>
    /\ ppc = "idle" /\ approving = "none" /\ stakeAmountWei = <<>> /\ txHash = <<>>
    /\ tries = 0 /\ delayMs = 0 /\ isSendingTx = FALSE /\ log = <<>> /\ err = ""
    /\ stream = <<>> /\ pos = 0 /\ pending = <<>> /\ buf = <<>>
    /\ currentEvent = <<>> /\ events = <<>> /\ received = <<>> /\ seps = <<>>
    /\ cuts = {} /\ spc = "idle"
    /\ signal = <<FALSE>> /\ abortRef = <<>> /\ aborted = {} /\ inflight = {} /\ outcome = "none"
    /\ clicks = 0
    /\ argSpender = <<>> /\ argAmount = <<>> /\ calldata = <<>> /\ decoded = <<>>
    /\ response = <<>> /\ thrown = <<>>

\* one call of rpcCallWithFallback whose signal may be aborted during an attempt
SpecRpcSignal == InitRpcSignal /\ [][NextRpcSignal]_vars

NextWait == PollReceipt \/ DelayElapsed \/ SignalAborts

\* waitForReceipt({ txHash, signal }) has been called for a submitted
\* transaction, without a signal or with one that is not aborted: the first
\* poll is under way
InitWait ==
    /\ signal \in {<<>>, <<FALSE>>}
    /\ ppc = "waitTx" /\ txHash = TxHash1 /\ tries = 0 /\ delayMs = InitialDelayMs
    /\ isSendingTx = TRUE /\ approving = "none" /\ stakeAmountWei = <<>>
    /\ messages = <<>> /\ log = <<>> /\ err = ""
    /\ plan = [actionType |-> "UNSTAKE", tx |-> <<StakeTx>>, txs |-> <<>>]
    /\ account = <<OWNER>> /\ walletChain = <<84532>>
    /\ env = [VITE_URANO_TOKEN |-> URANO, VITE_USDC_TOKEN |-> USDC, VITE_RPC_URL |-> ""]
    /\ stream = <<>> /\ pos = 0 /\ pending = <<>> /\ buf = <<>>
    /\ currentEvent = <<>> /\ events = <<>> /\ received = <<>> /\ seps = <<>>
    /\ cuts = {} /\ spc = "idle"
    /\ isStreaming = FALSE /\ planReceived = FALSE /\ assistantId = <<>> /\ payload = <<>>
    /\ lastPlan = <<>> /\ lastType = "none" /\ turns = 0 /\ nEvents = 0
    /\ rpcResps = <<>> /\ rpcI = 0 /\ lastErr = <<>> /\ asked = <<>> /\ rpcOut = <<>>
    /\ abortRef = <<>> /\ aborted = {} /\ inflight = {} /\ outcome = "none" /\ clicks = 0
    /\ argSpender = <<>> /\ argAmount = <<>> /\ calldata = <<>> /\ decoded = <<>>
    /\ response = <<>> /\ thrown = <<>>

\* one waitForReceipt whose signal may be aborted at any time
SpecWait == InitWait /\ [][NextWait]_vars

NextCancel == onSend \/ close \/ StreamEnds \/ StreamFails

\* a conversation whose streams are started, aborted by close or by the next
\* startStreaming, and settled in any order
SpecCancel == InitChat /\ [][NextCancel]_vars

NextWaitCancel ==
    \/ onSend
    \/ close
    \/ StreamEnds
    \/ StreamFails
    \/ ClickSendToWallet
    \/ SendTxSettles
    \/ PollReceipt
    \/ DelayElapsed

\* the widget after it is mounted, with a connected wallet on the chain of
\* the plan whose card will be clicked
InitWaitCancel ==
    /\ messages = <<Message(1, "assistant", Greeting)>>
    /\ isStreaming = FALSE /\ planReceived = FALSE /\ assistantId = <<>> /\ payload = <<>>
    /\ lastPlan = <<>> /\ lastType = "none" /\ turns = 0 /\ nEvents = 0
    /\ plan = [actionType |-> "UNSTAKE", tx |-> <<StakeTx>>, txs |-> <<>>]
    /\ account = <<OWNER>> /\ walletChain = <<84532>>
    /\ ppc = "idle" /\ approving = "none" /\ stakeAmountWei = <<>> /\ txHash = <<>>
    /\ tries = 0 /\ delayMs = 0 /\ isSendingTx = FALSE /\ log = <<>> /\ err = ""
    /\ env = [VITE_URANO_TOKEN |-> URANO, VITE_USDC_TOKEN |-> USDC, VITE_RPC_URL |-> ""]
    /\ stream = <<>> /\ pos = 0 /\ pending = <<>> /\ buf = <<>>
    /\ currentEvent = <<>> /\ events = <<>> /\ received = <<>> /\ seps = <<>>
    /\ cuts = {} /\ spc = "idle"
    /\ rpcResps = <<>> /\ rpcI = 0 /\ lastErr = <<>> /\ asked = <<>> /\ rpcOut = <<>>
    /\ signal = <<>> /\ abortRef = <<>> /\ aborted = {} /\ inflight = {} /\ outcome = "none"
    /\ clicks = 0
    /\ argSpender = <<>> /\ argAmount = <<>> /\ calldata = <<>> /\ decoded = <<>>
    /\ response = <<>> /\ thrown = <<>>

\* the streams of a conversation are started, aborted and settled while one
\* plan is executed
SpecWaitCancel == InitWaitCancel /\ [][NextWaitCancel]_vars

NextSend == SendButtonClick \/ SendTxSettles \/ PollReceipt \/ DelayElapsed

\* the card of a plan that needs no approval is shown; the wallet may be
\* connected and is on the chain of the plan
InitSend ==
    /\ plan = [actionType |-> "UNSTAKE", tx |-> <<StakeTx>>, txs |-> <<>>]
    /\ account \in {<<>>, <<OWNER>>}
    /\ walletChain = <<84532>>
    /\ env = [VITE_URANO_TOKEN |-> URANO, VITE_USDC_TOKEN |-> USDC, VITE_RPC_URL |-> ""]
    /\ ppc = "idle" /\ approving = "none" /\ stakeAmountWei = <<>> /\ txHash = <<>>
    /\ tries = 0 /\ delayMs = 0 /\ isSendingTx = FALSE /\ messages = <<>> /\ log = <<>> /\ err = ""
    /\ stream = <<>> /\ pos = 0 /\ pending = <<>> /\ buf = <<>>
    /\ currentEvent = <<>> /\ events = <<>> /\ received = <<>> /\ seps = <<>>
    /\ cuts = {} /\ spc = "idle"
    /\ isStreaming = FALSE /\ planReceived = FALSE /\ assistantId = <<>> /\ payload = <<>>
    /\ lastPlan = <<>> /\ lastType = "none" /\ turns = 0 /\ nEvents = 0
    /\ rpcResps = <<>> /\ rpcI = 0 /\ lastErr = <<>> /\ asked = <<>> /\ rpcOut = <<>>
    /\ signal = <<>> /\ abortRef = <<>> /\ aborted = {} /\ inflight = {} /\ outcome = "none"
    /\ clicks = 0
    /\ argSpender = <<>> /\ argAmount = <<>> /\ calldata = <<>> /\ decoded = <<>>
    /\ response = <<>> /\ thrown = <<>>

\* the send buttons are clicked whenever they are enabled
SpecSend == InitSend /\ [][NextSend]_vars

\* the bodies a response can have
Bodies == {<<>>, SegDone, SegDelta \o SegDone}

\* the transport answers, ends or fails
TransportSettles == FetchSettles \/ FetchFails \/ ReadDone \/ ReadFails \/ ReadAborted

NextRead == TransportSettles \/ ReadChunk \/ SinkThrows \/ close \/ AwaitSettles

\* the first onSend has run (lines 401-416, 326-334): the user's message
\* and the placeholder follow the greeting, the controller of the stream is
\* current and fetch is pending
InitRead ==
    /\ stream \in Bodies
    /\ pos = 0 /\ pending = <<>> /\ buf = <<>>
    /\ currentEvent = <<>> /\ events = <<>> /\ received = <<>> /\ seps = <<>>
    /\ cuts = {} /\ spc = "fetching"
    /\ response = <<>> /\ thrown = <<>>
    /\ messages = <<Message(1, "assistant", Greeting), Message(2, "user", <<"h", "i">>),
                    Message(3, "assistant", <<>>)>>
    /\ payload = buildPayload(<<Message(1, "assistant", Greeting),
                                Message(2, "user", <<"h", "i">>)>>)
    /\ isStreaming = TRUE /\ planReceived = FALSE /\ assistantId = <<3>>
    /\ lastPlan = <<>> /\ lastType = "none" /\ turns = 1 /\ nEvents = 0
    /\ abortRef = <<1>> /\ aborted = {} /\ inflight = {1} /\ outcome = "none"
    /\ signal = <<>> /\ clicks = 0
    /\ plan = [actionType |-> "UNSTAKE", tx |-> <<>>, txs |-> <<>>]
    /\ account = <<>> /\ walletChain = <<>>
    /\ env = [VITE_URANO_TOKEN |-> URANO, VITE_USDC_TOKEN |-> USDC, VITE_RPC_URL |-> ""]
    /\ ppc = "idle" /\ approving = "none" /\ stakeAmountWei = <<>> /\ txHash = <<>>
    /\ tries = 0 /\ delayMs = 0 /\ isSendingTx = FALSE /\ log = <<>> /\ err = ""
    /\ rpcResps = <<>> /\ rpcI = 0 /\ lastErr = <<>> /\ asked = <<>> /\ rpcOut = <<>>
    /\ argSpender = <<>> /\ argAmount = <<>> /\ calldata = <<>> /\ decoded = <<>>

\* one streamChat from its call to the end of startStreaming. The transport
\* answers and in the end it ends or fails, and a settled await is resumed.
SpecRead ==
    InitRead /\ [][NextRead]_vars /\ WF_vars(TransportSettles) /\ WF_vars(AwaitSettles)

MaxStreams == 2    \* in a conversation that can be closed at most MaxStreams streams start
MaxLate == 2       \* and they deliver at most MaxLate events

NextClose ==
    \/ turns < MaxStreams /\ onSend
    \/ close
    \/ nEvents < MaxLate /\ OnPlanEvent
    \/ nEvents < MaxLate /\ OnDeltaEvent
    \/ nEvents < MaxLate /\ OnErrorEvent
    \/ nEvents < MaxLate /\ OnOtherEvent
    \/ StreamEnds
    \/ StreamFails

\* a conversation whose streams deliver events and are aborted by close or
\* by the next startStreaming
SpecClose == InitChat /\ [][NextClose]_vars

NextCodec == EncodeApprove \/ DecodeFirstArg

\* a spender and an amount in [0, 2^256 - 1]; nothing is encoded yet
InitCodec ==
    /\ argSpender \in Spenders /\ argAmount \in Amounts
    /\ calldata = <<>> /\ decoded = <<>>
    /\ response = <<>> /\ thrown = <<>>
    /\ plan = [actionType |-> "UNSTAKE", tx |-> <<>>, txs |-> <<>>]
    /\ account = <<>> /\ walletChain = <<>>
    /\ env = [VITE_URANO_TOKEN |-> URANO, VITE_USDC_TOKEN |-> USDC, VITE_RPC_URL |-> ""]
    /\ ppc = "idle" /\ approving = "none" /\ stakeAmountWei = <<>> /\ txHash = <<>>
    /\ tries = 0 /\ delayMs = 0 /\ isSendingTx = FALSE /\ messages = <<>> /\ log = <<>> /\ err = ""
    /\ stream = <<>> /\ pos = 0 /\ pending = <<>> /\ buf = <<>>
    /\ currentEvent = <<>> /\ events = <<>> /\ received = <<>> /\ seps = <<>>
    /\ cuts = {} /\ spc = "idle"
    /\ isStreaming = FALSE /\ planReceived = FALSE /\ assistantId = <<>> /\ payload = <<>>
    /\ lastPlan = <<>> /\ lastType = "none" /\ turns = 0 /\ nEvents = 0
    /\ rpcResps = <<>> /\ rpcI = 0 /\ lastErr = <<>> /\ asked = <<>> /\ rpcOut = <<>>
    /\ signal = <<>> /\ abortRef = <<>> /\ aborted = {} /\ inflight = {} /\ outcome = "none"
    /\ clicks = 0

\* approve calldata is encoded and its first argument decoded
SpecCodec == InitCodec /\ [][NextCodec]_vars

\* streamChat on a stream of whole blocks, delivered in chunks
InitBlocks ==
    /\ stream \in BlockStreams
    /\ pos = 0 /\ pending = <<>> /\ buf = <<>>
    /\ currentEvent = <<>> /\ events = <<>> /\ received = <<>> /\ seps = <<>>
    /\ cuts = {} /\ spc = "reading"
    /\ plan = [actionType |-> "UNSTAKE", tx |-> <<>>, txs |-> <<>>]
    /\ account = <<>> /\ walletChain = <<>>
    /\ env = [VITE_URANO_TOKEN |-> URANO, VITE_USDC_TOKEN |-> USDC, VITE_RPC_URL |-> ""]
    /\ ppc = "idle" /\ approving = "none" /\ stakeAmountWei = <<>> /\ txHash = <<>>
    /\ tries = 0 /\ delayMs = 0 /\ isSendingTx = FALSE /\ messages = <<>> /\ log = <<>> /\ err = ""
    /\ isStreaming = FALSE /\ planReceived = FALSE /\ assistantId = <<>> /\ payload = <<>>
    /\ lastPlan = <<>> /\ lastType = "none" /\ turns = 0 /\ nEvents = 0
    /\ rpcResps = <<>> /\ rpcI = 0 /\ lastErr = <<>> /\ asked = <<>> /\ rpcOut = <<>>
    /\ signal = <<>> /\ abortRef = <<>> /\ aborted = {} /\ inflight = {} /\ outcome = "none"
    /\ clicks = 0
    /\ argSpender = <<>> /\ argAmount = <<>> /\ calldata = <<>> /\ decoded = <<>>
    /\ response = <<>> /\ thrown = <<>>

SpecBlocks == InitBlocks /\ [][NextStream]_vars

\* one execution of a plan in which every request to an endpoint settles and
\* every timer fires
SpecPlanFair == SpecPlan /\ WF_vars(PollReceipt) /\ WF_vars(DelayElapsed)

(***************************************************************************)
(* Properties of streamChat (checked under SpecStream)                     *)
(***************************************************************************)
\* streamChat given the bytes bs in a single chunk
OneChunk(bs) ==
    LET d == Decode(<<>>, bs)
    IN  DrainBuffer(d.text, <<>>, 0)

\* C1: however the bytes read so far were cut into chunks, the events
\* passed to onEvent so far are the events that the same bytes give when
\* they arrive as one chunk; at the end of the stream this is the whole
\* stream parsed as a single chunk.
ChunkingIndependent ==
    events = OneChunk(SubSeq(stream, 1, pos)).events

\* C1 witness: a stream has been read to its end in chunks that cut a
\* character and a separator in two, and an event carrying the character
\* has been passed on
ChunkedThroughCharacter ==
    /\ spc = "released"
    /\ {"utf8", "separator"} \subseteq cuts
    /\ \E i \in 1..Len(events) :
        /\ events[i].type = "delta"
        /\ events[i].delta = JStr(<<EAcute>>)

\* the offset in received at which buf starts
TailStart == Len(received) - Len(buf)

\* C2: after each chunk buf holds no blank-line separator and is the part
\* of the received text that follows the last separator taken out; every
\* event passed to onEvent comes from a block whose separator lies wholly
\* in the text before buf, so that what stays in buf at the end of the
\* data has given no event.
EventsOnlyAfterSeparator ==
    /\ IndexOf(buf, <<NL, NL>>) = -1
    /\ TailStart >= 0
    /\ buf = SliceFrom(received, TailStart)
    /\ TailStart = 0 \/ (TailStart >= 2 /\ received[TailStart - 1] = NL /\ received[TailStart] = NL)
    /\ Len(seps) = Len(events)
    /\ \A i \in 1..Len(seps) :
        /\ seps[i] + 2 <= TailStart
        /\ received[seps[i] + 1] = NL /\ received[seps[i] + 2] = NL
        /\ \A j \in 1..(i - 1) : seps[j] < seps[i]
    /\ events = DrainBuffer(Slice(received, 0, TailStart), <<>>, 0).events

\* C2 witness: the data ended while buf held a block without separator,
\* after an event had been passed on and a separator had come in two chunks
UnterminatedTailKept ==
    /\ spc = "released"
    /\ events # <<>>
    /\ Trim(buf) = SegReady
    /\ "separator" \in cuts

(***************************************************************************)
(* Properties of sendPlanToWallet (checked under SpecPlan)                 *)
(***************************************************************************)
\* the positions in log of the transactions handed to the wallet
SendIdx == {i \in 1..Len(log) : log[i].op = "sendTx"}
\* the positions in log of the receipts that waitForReceipt returned
ReceiptIdx == {i \in 1..Len(log) : log[i].op = "receipt"}
\* the transaction that the wallet is given for a TxPreview
Submitted(t) == [chainId |-> t.chainId, to |-> t.to, data |-> t.data,
                 value |-> BigIntOfDecimal(t.value).val]
\* the amount of an approve calldata
ApprovedAmount(data) == BigIntOfHex(Slice(data, 74, 138))

\* C3: between two transactions handed to the wallet in one execution
\* there is a receipt, so that at most one submission is without receipt
\* at any time.
SequentialSubmissions ==
    /\ \A i \in SendIdx : \A j \in SendIdx :
        i < j => \E k \in ReceiptIdx : i < k /\ k < j
    /\ Cardinality(SendIdx) <= Cardinality(ReceiptIdx) + 1

\* C3 witness: an execution has ended after two submissions
TwoSubmissionsDone ==
    /\ ppc = "done"
    /\ Cardinality(SendIdx) = 2
    /\ Cardinality(ReceiptIdx) = 2

\* a STAKE plan with one staking transaction and no approval of its own
StakeCase == plan.actionType = "STAKE" /\ plan.tx = <<StakeTx>> /\ plan.txs = <<>>

\* what the execution does after the chain is settled
CoreLog == SelectSeq(log, LAMBDA e : e.op \notin {"switchChain", "switched"})

StepOf(e) == IF e.op = "sendTx" THEN e.step ELSE e.op

StakeSteps == <<"approve", "sent", "waitForReceipt", "receipt", "eth_call", "eth_call",
                "reads", "planned", "sent", "waitForReceipt", "receipt">>

\* C4: the execution of a STAKE plan with one staking transaction goes
\* through these steps in this order: approve on the stake token for the
\* stake amount of the plan, its receipt, the two pre-flight reads, the
\* staking transaction.
StakeOrder ==
    StakeCase =>
        /\ Len(CoreLog) <= Len(StakeSteps)
        /\ \A i \in 1..Len(CoreLog) : StepOf(CoreLog[i]) = StakeSteps[i]
        /\ Len(CoreLog) >= 1 =>
            /\ CoreLog[1].tx.to = env.VITE_URANO_TOKEN
            /\ Slice(CoreLog[1].tx.data, 0, 10) = SelApprove
            /\ Slice(CoreLog[1].tx.data, 10, 74) = Word(SliceFrom(plan.tx[1].to, 2))
            /\ ApprovedAmount(CoreLog[1].tx.data) = decodeFirstUint256Arg(plan.tx[1].data).val
            /\ ApprovedAmount(CoreLog[1].tx.data) = Hundred
        /\ Len(CoreLog) >= 6 =>
            /\ CoreLog[5].data = encodeBalanceOf(account[1])
            /\ CoreLog[6].data = encodeAllowance(account[1], plan.tx[1].to)
        /\ Len(CoreLog) >= 8 => CoreLog[8].tx = Submitted(plan.tx[1])

\* C4 witness: the execution of such a plan has gone through all its steps
StakeDone ==
    /\ StakeCase
    /\ ppc = "done"
    /\ Len(CoreLog) = Len(StakeSteps)

\* the steps that failed: a send result without transactionHash, a receipt
\* with a status that is not 0x1
FailedSteps ==
    {i \in 1..Len(log) :
        \/ log[i].op = "sent" /\ "transactionHash" \notin DOMAIN log[i].result
        \/ log[i].op = "receipt" /\ log[i].receipt.status = <<Status0>>}

\* C5: a step that failed is the last thing the execution did: the
\* execution has failed with the error of that step and no transaction
\* was handed to the wallet after it.
StopsAtFailedStep ==
    \A i \in FailedSteps :
        /\ i = Len(log)
        /\ ppc = "failed"
        /\ \A j \in SendIdx : j < i
        /\ err \in IF log[i].op = "sent"
                   THEN {"Unexpected approve result (missing transactionHash).",
                         "Unexpected send result (missing transactionHash)."}
                   ELSE {"Approve reverted (status=0x0).", "USDC approve reverted (status=0x0).",
                         "Transaction reverted (status=0x0)."}

\* C5 witness: the approval was reverted and the planned transaction of
\* the plan was not submitted
ApprovalRevertedStops ==
    /\ ppc = "failed"
    /\ Len(log) \in FailedSteps
    /\ log[Len(log)].op = "receipt"
    /\ \E i \in SendIdx : log[i].step = "approve"
    /\ \A i \in SendIdx : log[i].step # "planned"

\* the transactions handed to the wallet as planned transactions
Planned == SelectSeq(log, LAMBDA e : e.op = "sendTx" /\ e.step = "planned")

\* C6: when txs is not empty the planned transactions handed to the wallet
\* are the transactions of txs, in order, and all of them once the
\* execution is done; the execution does not fail for want of a
\* transaction.
TxsSubmittedInOrder ==
    plan.txs # <<>> =>
        /\ Len(Planned) <= Len(plan.txs)
        /\ \A i \in 1..Len(Planned) : i <= Len(plan.txs) => Planned[i].tx = Submitted(plan.txs[i])
        /\ ppc = "done" => Len(Planned) = Len(plan.txs)
        /\ err # "No transaction to send."

\* C7: the execution of a plan without transactions fails with the
\* no-transaction error and has called neither the wallet nor an endpoint.
NoTransactionFailsFirst ==
    (plan.tx = <<>> /\ plan.txs = <<>>) =>
        /\ log = <<>>
        /\ ppc \in {"idle", "failed"}
        /\ ppc = "failed" =>
            /\ err = "No transaction to send."
            /\ messages = <<[role |-> "error", text |-> <<"No transaction to send.">>]>>
            /\ ~isSendingTx

\* C7 witness: a plan without transactions was sent with no wallet connected
NoTransactionFailed ==
    /\ plan.tx = <<>> /\ plan.txs = <<>>
    /\ account = <<>>
    /\ ppc = "failed"

\* the wallet is not on the chain of the plan
NeedsSwitch == plan.tx # <<>> /\ (walletChain = <<>> \/ walletChain[1] # plan.tx[1].chainId)

\* C8: when the wallet is not on the chain of the plan, the first call of
\* the execution is the chain switch, every submission comes after the
\* switch has succeeded, and a switch that failed ends the execution.
SwitchBeforeSubmission ==
    NeedsSwitch =>
        /\ log # <<>> =>
            /\ log[1] = [op |-> "switchChain", chainId |-> plan.tx[1].chainId]
            /\ ppc # "switchChain" =>
                \/ Len(log) >= 2 /\ log[2].op = "switched"
                \/ Len(log) = 1 /\ ppc = "failed"
        /\ \A j \in SendIdx : j > 2 /\ log[2].op = "switched"

\* C8 witness: the switch was asked for and failed
SwitchFailed ==
    /\ NeedsSwitch
    /\ ppc = "failed"
    /\ log = <<[op |-> "switchChain", chainId |-> plan.tx[1].chainId]>>

\* the reads of a log entry cover the amount
Covers(e, amount) == ~BigLess(e.bal, amount) /\ ~BigLess(e.allow, amount)

\* C9: in a STAKE execution the planned transaction is handed to the
\* wallet only after reads that gave a balance and an allowance of at
\* least the amount; reads that gave less, or a read that failed, end the
\* execution.
PreflightGuardsStake ==
    (plan.actionType = "STAKE" /\ plan.tx # <<>>) =>
        LET amount == decodeFirstUint256Arg(plan.tx[1].data) IN
        /\ \A j \in SendIdx : log[j].step = "planned" =>
            /\ amount.ok
            /\ \E k \in 1..(j - 1) : log[k].op = "reads" /\ Covers(log[k], amount.val)
        /\ \A k \in 1..Len(log) : (log[k].op = "reads" /\ ~Covers(log[k], amount.val)) =>
            /\ k = Len(log)
            /\ ppc = "failed"
            /\ err \in {"Insufficient URANO balance.", "Allowance is still insufficient after approval."}
        /\ (log # <<>> /\ log[Len(log)].op = "eth_call") => ppc \in {"preflight", "failed"}

\* C9 witness: the balance covered the amount, the allowance did not
AllowanceTooLow ==
    /\ plan.actionType = "STAKE"
    /\ ppc = "failed"
    /\ log # <<>>
    /\ log[Len(log)].op = "reads"
    /\ log[Len(log)].bal = Hundred
    /\ BigLess(log[Len(log)].allow, Hundred)

\* the working list of the plan
Working == IF plan.txs # <<>> THEN plan.txs ELSE plan.tx
\* the token an approval is needed on
RelevantToken == IF plan.actionType = "STAKE" THEN env.VITE_URANO_TOKEN ELSE env.VITE_USDC_TOKEN
\* the working list holds an approve call on the token
HasApproval ==
    \E i \in 1..Len(Working) :
        Working[i].to = RelevantToken /\ StartsWith(Working[i].data, SelApprove)

\* C10: in a STAKE or BUY_USHARE execution an approval is synthesized when
\* and only when the working list holds no approve call on the token.
ApprovalOnlyWhenMissing ==
    plan.actionType \in {"STAKE", "BUY_USHARE"} =>
        /\ HasApproval => \A j \in SendIdx : log[j].step # "approve"
        /\ ~HasApproval => \A j \in SendIdx : log[j].step = "planned" =>
            \E k \in 1..(j - 1) :
                /\ log[k].op = "sendTx" /\ log[k].step = "approve"
                /\ log[k].tx.to = RelevantToken
                /\ ApprovedAmount(log[k].tx.data) =
                      IF plan.actionType = "STAKE"
                      THEN decodeFirstUint256Arg(plan.tx[1].data).val ELSE MAX_UINT256

(***************************************************************************)
(* Properties of the conversation (checked under SpecChat and SpecPayload) *)
(***************************************************************************)
\* the assistant message the running stream writes to (uid() is the position)
OpenMessage == messages[assistantId[1]]

\* the plan has at least one transaction: txs non-empty, or the legacy tx present
HasTransaction(p) == p.txs # <<>> \/ p.tx # <<>>

\* an actionable plan: at least one transaction and a type that is neither
\* QUESTION nor UNSUPPORTED
Actionable(p) == HasTransaction(p) /\ p.actionType \notin {"QUESTION", "UNSUPPORTED"}

\* C11: isActionablePlan(plan) is true exactly when the plan has at least one
\* transaction (txs non-empty, or the legacy tx present) and its actionType is
\* neither QUESTION nor UNSUPPORTED, so the plan of a plan event is attached to
\* the open message exactly in that case; a plan with only a non-empty txs list
\* and an actionable type is actionable.
ActionableIffTransactionAndType ==
    lastPlan # <<>> =>
        /\ isActionablePlan(lastPlan[1]) <=> Actionable(lastPlan[1])
        /\ OpenMessage.plan # <<>> <=> Actionable(lastPlan[1])

\* C12: for every actionType, a plan whose txs is empty or absent and whose
\* legacy tx is null or absent is not actionable: isActionablePlan is false for
\* it and after its plan event no plan is attached to the open message.
NoTransactionNotActionable ==
    (lastPlan # <<>> /\ ~HasTransaction(lastPlan[1])) =>
        /\ ~isActionablePlan(lastPlan[1])
        /\ OpenMessage.plan = <<>>

\* a plan of an actionable type without any transaction has been applied
StakePlanWithoutTransaction ==
    /\ lastPlan # <<>>
    /\ lastPlan[1].actionType = "STAKE" /\ ~HasTransaction(lastPlan[1])
    /\ OpenMessage.text = <<"Done">> /\ OpenMessage.plan = <<>>

\* C13 (as stated): within one turn, once a plan event has been applied to the
\* open assistant message its text never changes again for the rest of the turn.
TextFixedAfterPlan ==
    [][(planReceived /\ planReceived') => OpenMessage'.text = OpenMessage.text]_vars

\* C13: within one turn, once a plan event has been applied, the text of the
\* open assistant message is the userMessage of the latest plan event ("" when
\* it has none) for the rest of the turn: deltas delivered after a plan are
\* discarded and the text accumulated from earlier deltas is replaced.
TextIsLatestPlanMessage ==
    planReceived => OpenMessage.text = UserMessage(lastPlan[1])

\* a delta was delivered after a plan that was not attached
DeltaAfterPlanDiscarded ==
    /\ planReceived /\ lastType = "delta" /\ nEvents >= 2
    /\ OpenMessage.plan = <<>> /\ OpenMessage.text = <<"Which token?">>

\* C14: after any sequence of stream events every message that carries a plan
\* carries an actionable one: a plan event attaches its plan only when
\* isActionablePlan holds and otherwise clears the plan of the open message.
AttachedPlansActionable ==
    /\ \A i \in 1..Len(messages) : messages[i].plan # <<>> => Actionable(messages[i].plan[1])
    /\ lastPlan # <<>> =>
        OpenMessage.plan = (IF isActionablePlan(lastPlan[1]) THEN lastPlan ELSE <<>>)

\* an earlier message carries a plan and the open one was given a plan that
\* is not actionable
PlanKeptOnEarlierMessage ==
    /\ lastPlan # <<>> /\ ~isActionablePlan(lastPlan[1])
    /\ \E i \in 1..Len(messages) : i # assistantId[1] /\ messages[i].plan # <<>>

\* C15: on an error event, if the open assistant message has no text yet its
\* text is set to a synthesized apology; if it has text, the text is left
\* unchanged and the error is appended as a separate message.
ErrorEventApologizesOrAppends ==
    [][(nEvents' = nEvents + 1 /\ lastType' = "error") =>
        IF OpenMessage.text = <<>>
        THEN OpenMessage'.text # <<>>
        ELSE /\ OpenMessage'.text = OpenMessage.text
             /\ Len(messages') = Len(messages) + 1
             /\ messages'[Len(messages')].role = "error"]_vars

\* the last n elements of s, all of them when there are fewer
LastN(s, n) == SubSeq(s, Max(1, Len(s) - n + 1), Len(s))

\* C16: the payload onSend builds is, oldest first, exactly the last 30
\* messages of role user or assistant of the conversation with the new user
\* message (all of them when there are fewer), however many system and error
\* messages are interleaved.
PayloadIsLastThirtyChatMessages ==
    turns = 1 =>
        payload = ToChatMessages(LastN(ChatOnly(SubSeq(messages, 1, Len(messages) - 1)),
                                       MAX_HISTORY))

\* C17: after any sequence of turns the payload sent by onSend holds no
\* assistant message with empty content.
NoEmptyAssistantInPayload ==
    \A i \in 1..Len(payload) : ~(payload[i].role = "assistant" /\ payload[i].content = <<>>)

(***************************************************************************)
(* Properties of rpcCallWithFallback (checked under SpecRpc)               *)
(***************************************************************************)
\* the endpoint answers with HTTP 2xx, a JSON body, no error field and a
\* result key
Good(resp) ==
    resp.ok /\ resp.json # <<>> /\ resp.json[1].error = <<>> /\ resp.json[1].hasResult

CallOver == rpcI = Len(rpcs) + 1

\* C18: the endpoints are asked in list order, an endpoint is asked only if
\* every endpoint before it failed, and the call returns the result of, and
\* names, the first endpoint that answers with HTTP 2xx, no error field and a
\* result key; no endpoint after it is asked.
FirstGoodEndpointServes ==
    /\ asked = SubSeq(rpcs, 1, Len(asked))
    /\ \A k \in 1..Len(asked) : \A j \in 1..(k - 1) : ~Good(rpcResps[j])
    /\ (CallOver /\ \E j \in 1..Len(rpcs) : Good(rpcResps[j])) =>
        /\ rpcOut # <<>> /\ rpcOut[1].ok
        /\ Good(rpcResps[Len(asked)])
        /\ rpcOut[1].rpcUrl = rpcs[Len(asked)]
        /\ rpcOut[1].result = rpcResps[Len(asked)].json[1].result
    /\ (rpcOut # <<>> /\ rpcOut[1].ok) => Good(rpcResps[Len(asked)])

\* the first endpoint failed and a later one served the call
ServedByFallback ==
    /\ rpcOut # <<>> /\ rpcOut[1].ok
    /\ Len(asked) = Len(rpcs) /\ Len(rpcs) = 3

\* C19: if every endpoint fails, the call fails after each endpoint was asked
\* exactly once, with the error of the last endpoint asked.
AllFailedThrowsLastError ==
    /\ (CallOver /\ \A j \in 1..Len(rpcs) : ~Good(rpcResps[j])) =>
        /\ asked = rpcs
        /\ rpcOut = <<Thrown(rpcRequest(rpcResps[Len(rpcs)]).error)>>
    /\ (rpcOut # <<>> /\ ~rpcOut[1].ok) => \A j \in 1..Len(rpcs) : ~Good(rpcResps[j])

\* three endpoints failed in three different ways
AllEndpointsFailed ==
    /\ rpcOut # <<>> /\ ~rpcOut[1].ok
    /\ Len(asked) = 3
    /\ rpcResps[1] = RespHttpFail /\ rpcResps[2] = RespRpcError /\ rpcResps[3] = RespNoResult

(***************************************************************************)
(* Properties of waitForReceipt (checked under SpecPlanFair)               *)
(***************************************************************************)
Waiting == ppc \in {"waitApprove", "waitTx"}
Sleeping == ppc \in {"sleepApprove", "sleepTx"}
ReceiptTimeout == "Timed out waiting for transaction receipt"

\* a poll gave a receipt in this step
GotReceipt == Len(log') > Len(log) /\ log'[Len(log) + 1].op = "receipt"

\* C20: waitForReceipt returns in the step in which a poll yields a receipt,
\* on the first poll as on a later one and whatever the status of the receipt;
\* it polls at most 60 times and fails with the receipt-timeout error only
\* after the 60th poll gave null; every wait ends.
WaitForReceiptEnds ==
    /\ [][/\ GotReceipt => (Waiting /\ txHash' = <<>> /\ ~Waiting' /\ ~Sleeping')
          /\ (err' = ReceiptTimeout /\ err # ReceiptTimeout) => (Sleeping /\ tries = maxTries - 1)
          /\ (Sleeping /\ tries = maxTries - 1 /\ ppc' # ppc) => err' = ReceiptTimeout]_vars
    /\ [](tries < maxTries)
    /\ ((Waiting \/ Sleeping) ~> ~(Waiting \/ Sleeping))

\* sixty polls gave null and the execution failed with the timeout
ReceiptTimedOut == ppc = "failed" /\ err = ReceiptTimeout

(***************************************************************************)
(* Properties of cancellation and of the send button                       *)
(***************************************************************************)
\* C21: when the signal passed to waitForReceipt is aborted while it waits
\* between two polls, the wait ends in that step with a cancellation error,
\* and no poll is made once the signal is aborted.
AbortEndsTheWait ==
    /\ [][(signal = <<FALSE>> /\ signal' = <<TRUE>> /\ Sleeping)
             => (ppc' = "failed" /\ err' = "Aborted" /\ txHash' = <<>>)]_vars
    /\ [](signal = <<TRUE>> => (~Waiting /\ ~Sleeping))

\* the signal was aborted during a delay and the wait failed with the cancellation
AbortedBetweenPolls == signal = <<TRUE>> /\ ppc = "failed" /\ err = "Aborted"

\* the streams in flight whose controller is not aborted
LiveStreams == inflight \ aborted

\* C23: the current controller is single-owner. startStreaming aborts the
\* controller it replaces before it installs its own, close aborts the current
\* one, and in every reachable state at most one stream whose controller is
\* not aborted is in flight: the stream of the current controller.
SingleLiveStream ==
    /\ [](Cardinality(LiveStreams) <= 1 /\ \A id \in LiveStreams : abortRef = <<id>>)
    /\ [][/\ turns' = turns + 1
             => (abortRef' = <<turns'>> /\ \A i \in DOMAIN abortRef : abortRef[i] \in aborted')
          /\ (abortRef # <<>> /\ abortRef' = <<>> /\ inflight' = inflight)
             => abortRef[1] \in aborted']_vars

\* two streams are in flight: an aborted one that has not settled yet and
\* the one of the current controller
AbortedStreamBesideLiveOne ==
    \E a \in inflight \cap aborted : \E b \in LiveStreams : a < b /\ abortRef = <<b>>

\* the streams whose streamChat settles in this step
Settled == inflight \ inflight'

\* C25: a stream that ends because its controller was aborted (by close or
\* by the next startStreaming) leaves the conversation as it is: no error
\* message is added and no text is changed; a stream that fails without
\* having been aborted adds one error message.
AbortShowsNoError ==
    [][\A id \in Settled :
          /\ id \in aborted => messages' = messages
          /\ (id \notin aborted /\ outcome' = "failed")
             => /\ Len(messages') = Len(messages) + 1
                /\ SubSeq(messages', 1, Len(messages)) = messages
                /\ messages'[Len(messages')].role = "error"]_vars

\* an aborted stream has settled and the conversation shows no error
AbortedStreamSettledSilently ==
    outcome = "aborted" /\ \A i \in 1..Len(messages) : messages[i].role # "error"

\* C22: the conversation's cancellation token is shared with the receipt
\* poller: a step that aborts the current controller (a new stream, or close)
\* while a plan execution waits for a receipt interrupts that wait, and the
\* polling stops.
AbortInterruptsReceiptWait ==
    [][(aborted' # aborted /\ (Waiting \/ Sleeping))
          => (ppc' = "failed" /\ ~Waiting' /\ ~Sleeping')]_vars

\* an execution of sendPlanToWallet is suspended at one of its awaits
InFlight == ppc \notin {"idle", "done", "failed"}

\* C24: at most one execution of sendPlanToWallet is in flight: isSendingTx
\* is set for as long as an execution runs, and no click starts an execution
\* while it is set, so a new execution starts only after the one before is over.
OneSendInFlight ==
    /\ [](InFlight => isSendingTx)
    /\ [][clicks' # clicks => (~isSendingTx /\ ~InFlight)]_vars

\* a second execution runs after the first one is over
SecondSendRuns == clicks = 2 /\ InFlight /\ Len(messages) > 1

(***************************************************************************)
(* Properties of the calldata helpers (checked under SpecCodec)            *)
(***************************************************************************)
\* C26 as stated: decodeFirstUint256Arg(encodeErc20Approve(spender, amount))
\* equals amount, for every spender and every amount in [0, 2^256 - 1].
ApproveRoundTripsToAmount == decoded # <<>> => decoded[1] = Returned(argAmount)

\* C26: decodeFirstUint256Arg(encodeErc20Approve(spender, amount)) is the
\* spender read as a number, whatever the amount; the amount is the second
\* 32-byte argument of the calldata.
ApproveDecodesToSpender ==
    /\ decoded # <<>> => decoded[1] = Returned(BigIntOfHex(SliceFrom(argSpender, 2)))
    /\ calldata # <<>> => BigIntOfHex(Slice(calldata[1], 10 + 64, 10 + 128)) = argAmount

\* the calldata of an approval of 2^256 - 1 has been decoded
MaxApprovalDecoded == decoded # <<>> /\ decoded[1].ok /\ argAmount = MAX_UINT256

(***************************************************************************)
(* Properties of flushBlock (checked under SpecBlocks, C30 under           *)
(* SpecStream)                                                             *)
(***************************************************************************)
\* the complete blocks of a text, as the read loop cuts them
RECURSIVE BlocksOf(_)
BlocksOf(text) ==
    IF IndexOf(text, <<NL, NL>>) = -1 THEN <<>>
    ELSE <<TrimEnd(Slice(text, 0, IndexOf(text, <<NL, NL>>)))>>
         \o BlocksOf(SliceFrom(text, IndexOf(text, <<NL, NL>>) + 2))

\* a block without its comment lines (the lines starting with ":")
StripComments(block) ==
    JoinLines(SelectSeq(SplitLines(block), LAMBDA l : ~StartsWith(l, <<":">>)))

\* the types of the event a block of a given event name may give
TypesFor(name) ==
    CASE name = NameReady -> {"ready"}
      [] name = NamePlan  -> {"plan", "error"}
      [] name = NameDelta -> {"delta"}
      [] name = NameDone  -> {"done"}
      [] name = NameError -> {"error"}
      [] OTHER            -> {}

\* for each block that has text besides comments and whose event name is
\* recognized, the types its one event may have
RECURSIVE ClaimedTypes(_, _)
ClaimedTypes(bs, cur) ==
    IF bs = <<>> THEN <<>>
    ELSE (IF /\ Trim(StripComments(Head(bs))) # <<>>
             /\ TypesFor(EventNameOf(LastEventLine(SplitLines(Head(bs))),
                                     EventAfter(Head(bs), cur))) # {}
          THEN <<TypesFor(EventNameOf(LastEventLine(SplitLines(Head(bs))),
                                      EventAfter(Head(bs), cur)))>>
          ELSE <<>>)
         \o ClaimedTypes(Tail(bs), EventAfter(Head(bs), cur))

OneEventEach(evs, types) ==
    /\ Len(evs) = Len(types)
    /\ \A k \in 1..Len(evs) : k <= Len(types) => evs[k].type \in types[k]

\* C27: every complete non-blank block whose event name is ready, plan,
\* delta, done or error gives exactly one onEvent call, of that type (for a
\* plan: plan, or error when the payload is not JSON); the other blocks give
\* none. Checked at the end of a stream of whole blocks.
OneEventPerRecognizedBlock ==
    spc = "released" => OneEventEach(events, ClaimedTypes(BlocksOf(received), <<>>))

\* the events of the blocks when each is flushed without its comment lines
RECURSIVE WithoutComments(_, _)
WithoutComments(bs, cur) ==
    IF bs = <<>> THEN <<>>
    ELSE FlushIfText(StripComments(Head(bs)), EventAfter(Head(bs), cur))
         \o WithoutComments(Tail(bs), EventAfter(Head(bs), cur))

\* C28: comment lines are ignored without affecting the rest of their
\* block: every block gives the event that it gives with its comment lines
\* removed, and a block of comment lines only gives none.
CommentLinesIgnored ==
    spc = "released" => events = WithoutComments(BlocksOf(received), <<>>)

\* the name a block is decoded with when the name that persists is the
\* one on the event: line of the latest earlier block that has such a line
NameOnLine(block, persisted) ==
    IF LastEventLine(SplitLines(block)) # <<>> THEN LastEventLine(SplitLines(block))
    ELSE persisted

\* the events of the blocks when each is decoded with NameOnLine
RECURSIVE DecodedByLine(_, _)
DecodedByLine(bs, persisted) ==
    IF bs = <<>> THEN <<>>
    ELSE (IF Len(Trim(Head(bs))) > 0 /\ ~CommentTest(Head(bs))
          THEN FlushData(EventNameOf(NameOnLine(Head(bs), persisted), <<>>),
                         Trim(JoinLines(DataLines(SplitLines(Head(bs))))))
          ELSE <<>>)
         \o DecodedByLine(Tail(bs), NameOnLine(Head(bs), persisted))

\* C29: every block is decoded with the name on its own event: line when
\* it has one, and otherwise with the name on the event: line of the most
\* recent earlier block that has one.
OwnNameElseLatestEarlier ==
    spc = "released" => events = DecodedByLine(BlocksOf(received), <<>>)

\* C30: a done block gives a done event each time it comes and the blocks
\* after it are processed as after any block: the events of a stream that
\* starts with a done block are a done event followed by the events of the
\* rest of the stream, read with the event name done persisting.
DoneEventsNotMerged ==
    (spc = "released" /\ StartsWith(stream, SegDone))
        => events = <<[type |-> "done"]>>
                    \o DrainBuffer(Decode(<<>>, SliceFrom(stream, Len(SegDone))).text,
                                   <<NameDone>>, 0).events

\* the same done block came twice and gave two done events
TwoDoneEvents ==
    /\ spc = "released" /\ stream = SegDone \o SegDone
    /\ events = <<[type |-> "done"], [type |-> "done"]>>

(***************************************************************************)
(* Properties of the polling delay (checked under SpecWait)                *)
(***************************************************************************)
\* the delay waitForReceipt waits after the poll numbered k (from 0) gave null
DelayOfTry(k) ==
    CASE k = 0 -> 1200
      [] k = 1 -> 1380
      [] k = 2 -> 1586
      [] k = 3 -> 1823
      [] OTHER -> 2000

\* the same delays, were the products by 1.15 computed without rounding
DelayOfTryExact(k) ==
    CASE k = 0 -> 1200
      [] k = 1 -> 1380
      [] k = 2 -> 1587
      [] k = 3 -> 1825
      [] OTHER -> 2000

\* C34 as stated: the delays are 1200, 1380, 1587, 1825, 2000, 2000, ...
DelaysAreExactProducts ==
    (Waiting \/ Sleeping) => delayMs = DelayOfTryExact(tries)

\* C34: the delay starts at 1200 ms and each update replaces it by
\* min(2000, floor(delay * 1.15)) as doubles compute it: the delays are
\* 1200, 1380, 1586, 1823, 2000, 2000, ..., they never decrease, they stay
\* within [1200, 2000] ms and the cap is reached with the fourth update.
DelaysFollowDoubleProducts ==
    /\ []((Waiting \/ Sleeping)
            => (delayMs = DelayOfTry(tries) /\ delayMs >= InitialDelayMs /\ delayMs <= MaxDelayMs))
    /\ [][(Sleeping /\ Waiting')
            => (tries' = tries + 1 /\ delayMs' >= delayMs
                /\ delayMs' = Min(MaxDelayMs, FloorTimes115(delayMs))
                /\ (delayMs' = MaxDelayMs <=> tries' >= 4))]_vars

\* the third update has been made: three polls gave null and the delay is 1823 ms
ThirdDelayUpdate == Waiting /\ tries = 3 /\ delayMs = 1823

(***************************************************************************)
(* Properties of the end of an execution (checked under SpecPlan)          *)
(***************************************************************************)
\* C32: no submission is retried. Within one execution no two calls of the
\* wallet are for the same step or the same transaction; the step in which a
\* submission settles hands nothing to the wallet, and when the submission
\* failed the execution is over: it has failed and it calls the wallet and
\* the endpoints no more.
NoSubmissionRetried ==
    /\ [](\A i \in SendIdx : \A j \in SendIdx :
             i # j => (log[i].step # log[j].step /\ log[i].tx # log[j].tx))
    /\ [][/\ ppc \in {"sendApprove", "sendTx"}
             => /\ SendIdx' = SendIdx
                /\ ppc' \in {"waitApprove", "waitTx", "failed"}
                /\ ppc' = "failed" <=> ~(/\ Len(log') = Len(log) + 2
                                         /\ log'[Len(log) + 1].op = "sent"
                                         /\ isSendTxResult(log'[Len(log) + 1].result))
          /\ ppc = "failed" => (ppc' = "failed" /\ log' = log)]_vars

\* the wallet rejected the planned transaction after the approval was
\* confirmed, and the execution failed with two submissions made
PlannedSubmissionRejected ==
    /\ ppc = "failed"
    /\ err \in WalletErrors
    /\ Cardinality(SendIdx) = 2
    /\ log[Len(log)].op = "sendTx" /\ log[Len(log)].step = "planned"

\* the answers in which every endpoint fails
FailingPolls == {resps \in [1..Len(rpcs) -> PollResponses] :
                    \A i \in 1..Len(rpcs) : ~rpcRequest(resps[i]).ok}

\* C39: a poll in which every endpoint fails is no poll without receipt.
\* Whenever waitForReceipt polls and every endpoint fails, the execution
\* fails in that step with the error of the last endpoint, no delay is
\* started and nothing is submitted; a failed execution makes no further
\* poll and no further submission, though the transaction polled for has
\* been broadcast.
FailedPollEndsExecution ==
    /\ [](Waiting =>
            \A resps \in FailingPolls :
                \E L \in {AfterPoll(Cur, rpcCallWithFallback(rpcs, resps))} :
                    /\ L.ppc = "failed"
                    /\ L.err = rpcRequest(resps[Len(rpcs)]).error
                    /\ L.log = log
                    /\ L.txHash = <<>>
                    /\ ~L.isSendingTx)
    /\ [][ppc = "failed" => (ppc' = "failed" /\ log' = log)]_vars

\* every endpoint failed while the receipt of the approval was polled for:
\* the approval was broadcast and the planned transaction was never submitted
ApprovalPollFailed ==
    /\ ppc = "failed"
    /\ err = "RPC HTTP error"
    /\ log[Len(log)].op = "waitForReceipt"
    /\ \E i \in 1..Len(log) : log[i].op = "sent" /\ isSendTxResult(log[i].result)
    /\ SendIdx # {} /\ \A i \in SendIdx : log[i].step = "approve"

\* the message that ends a successful execution is in the conversation
ConfirmedShown ==
    \E i \in 1..Len(messages) :
        messages[i] = [role |-> "system", text |-> <<"Transaction confirmed.">>]

\* the error messages of the conversation
ErrorsShown == {i \in 1..Len(messages) : messages[i].role = "error"}

\* the submission at position i of log was followed, before the next
\* submission, by a receipt that is not a revert
ReceiptNotReverted(i) ==
    \E k \in ReceiptIdx :
        /\ k > i
        /\ \A j \in SendIdx : ~(i < j /\ j < k)
        /\ log[k].receipt.status # <<Status0>>

\* C40: isSendingTx is set exactly while an execution runs, so that an
\* execution that is over, done or failed, has reset it. "Transaction
\* confirmed." is shown only when the execution is done and every submitted
\* transaction got a receipt that is not a revert; a failed execution shows
\* one error message, that of its error, and no confirmation.
ExecutionEndsWithFlagResetAndOneVerdict ==
    /\ (ppc \notin {"idle", "done", "failed"}) <=> isSendingTx
    /\ ConfirmedShown => /\ ppc = "done"
                         /\ SendIdx # {}
                         /\ \A i \in SendIdx : ReceiptNotReverted(i)
    /\ ppc = "done" => (ConfirmedShown /\ ErrorsShown = {})
    /\ ppc = "failed" => /\ ErrorsShown = {Len(messages)}
                         /\ messages[Len(messages)].text = sanitizeTxError(err)
                         /\ ~ConfirmedShown
    /\ ppc \notin {"done", "failed"} => ErrorsShown = {}

\* an execution with an approval is done: both transactions have a receipt
\* that is not a revert, the confirmation is shown and the flag is reset
ConfirmedAfterApproval ==
    /\ ppc = "done" /\ ~isSendingTx
    /\ messages[Len(messages)].text = <<"Transaction confirmed.">>
    /\ \E i \in SendIdx : log[i].step = "approve"

(***************************************************************************)
(* Properties of a cancelled call (checked under SpecRpcSignal)            *)
(***************************************************************************)
\* C33: once the signal handed to rpcCallWithFallback has been aborted
\* during an attempt, no request goes to a later endpoint, and the call ends
\* by throwing the cancellation error of the aborted attempt: it returns no
\* result, and it throws neither the error of an endpoint nor "All RPCs failed".
CancelledCallThrowsCancellation ==
    /\ []((signal = <<TRUE>> /\ rpcOut # <<>>) => rpcOut = <<Thrown(AbortError)>>)
    /\ []((signal = <<TRUE>> /\ CallOver) => rpcOut # <<>>)
    /\ [][signal = <<TRUE>> => asked' = asked]_vars

\* the signal was aborted while the first of several endpoints was asked,
\* after which the call threw the cancellation though the second endpoint
\* had a result to give
CancelledBeforeGoodEndpoint ==
    /\ signal = <<TRUE>>
    /\ rpcOut = <<Thrown(AbortError)>>
    /\ Len(asked) = 1 /\ Len(rpcs) >= 2
    /\ Good(rpcResps[2])

(***************************************************************************)
(* Properties of the start and the end of streamChat (checked under        *)
(* SpecRead)                                                               *)
(***************************************************************************)
\* C31: when the response is not ok or has no body, streamChat has thrown
\* before it took a reader: it has read nothing, it has called onEvent for
\* nothing, and its error is "HTTP <status>: <text of the body, or the
\* status text>" or "No response body (stream not supported).".
BadResponseFailsBeforeAnyEvent ==
    \A i \in DOMAIN response :
        (~response[i].ok \/ ~response[i].body) =>
            /\ spc = "failed"
            /\ events = <<>> /\ pos = 0
            /\ thrown # <<>>
            /\ IF ~response[i].ok
               THEN /\ Len(thrown[1]) > 3
                    /\ SubSeq(thrown[1], 1, 3) = <<"HTTP ", response[i].status, ": ">>
               ELSE thrown[1] = <<"No response body (stream not supported).">>

\* a response with status 500 whose body holds a complete done block has
\* arrived: streamChat has failed and no event was delivered
ErrorResponseWithEventBody ==
    /\ response # <<>> /\ ~response[1].ok /\ response[1].readable
    /\ stream = SegDone
    /\ spc = "failed" /\ events = <<>>
    /\ thrown[1] = <<"HTTP ", "500", ": ">> \o SegDone

\* C35: a stream that took a reader leaves the read loop only with the lock
\* released, whether it returns, the read fails, the sink throws or the
\* signal is aborted; it returns only when the transport has signalled the
\* end of the data; the await of startStreaming settles only after that
\* and leaves isStreaming false; and the stream terminates: in the end it is
\* settled and isStreaming is false.
StreamReleasesAndTerminates ==
    /\ [][/\ (spc = "reading" /\ spc' # "reading") => spc' = "released"
          /\ (spc = "reading" /\ spc' = "released" /\ thrown' = <<>>)
                => (pos = Len(stream) /\ events' = events)
          /\ Settled # {} => (spc \in {"released", "failed"} /\ spc' = spc /\ ~isStreaming')]_vars
    /\ <>[](inflight = {} /\ ~isStreaming /\ spc \in {"released", "failed"})

\* the sink threw on an event: the lock is released, the stream is settled,
\* isStreaming is false and the failure is shown
SinkFailureReleased ==
    /\ thrown = <<<<"sink failed">>>>
    /\ events # <<>>
    /\ spc = "released"
    /\ inflight = {} /\ ~isStreaming
    /\ messages[Len(messages)].role = "error"

AbortedStreamChangesNothing ==
    [][/\ nEvents' # nEvents => (turns \in inflight /\ turns \notin aborted)
       /\ messages' # messages
            => (turns' = turns + 1 \/ (turns \in inflight /\ turns \notin aborted))]_vars

\* a stream was aborted after a delta had been appended for it, and it has
\* settled: the text of its message is what it was and no error is shown
AbortedAfterDelta ==
    /\ turns \in aborted /\ turns \notin inflight
    /\ outcome = "aborted"
    /\ assistantId # <<>>
    /\ messages[assistantId[1]].text # <<>>
    /\ \A i \in 1..Len(messages) : messages[i].role # "error"

\* C38: the messages that were there keep their place, their id and their
\* role in every step, and the list changes its length only by messages
\* appended at its end; onSend mints the assistantId of the turn for the
\* placeholder it appends last; and a delta or plan event leaves the length
\* of the list and every message but the one with that assistantId as they
\* were, text and plan included.
EventsChangeOnlyTheirMessage ==
    [][/\ Len(messages') >= Len(messages)
       /\ \A i \in 1..Len(messages) :
            messages'[i].id = messages[i].id /\ messages'[i].role = messages[i].role
       /\ Len(messages') > Len(messages) => SubSeq(messages', 1, Len(messages)) = messages
       /\ turns' # turns
            => /\ assistantId' = <<messages'[Len(messages')].id>>
               /\ messages'[Len(messages')].role = "assistant"
               /\ \A i \in 1..Len(messages) : messages[i].id # assistantId'[1]
       /\ (nEvents' # nEvents /\ lastType' \in {"plan", "delta"})
            => /\ Len(messages') = Len(messages)
               /\ \A i \in 1..Len(messages) :
                    messages[i].id # assistantId[1] => messages'[i] = messages[i]]_vars

\* in the second turn a delta was appended to the message of that turn while
\* the message of the first turn kept the text its own stream gave it
SecondTurnDeltaBesideFirst ==
    /\ turns = 2 /\ lastType = "delta"
    /\ assistantId = <<5>>
    /\ messages[5].text # <<>>
    /\ messages[3].text # <<>> /\ messages[3].text # messages[5].text

====
